---- MODULE Spec2Model ----
(***************************************************************************)
(* Wave-C (wave5.c): rule-driven single-file compiler emitting x86-64 ELF. *)
(*                                                                         *)
(* Source text and names are sequences of ASCII codes; the code buffer is  *)
(* the sequence of bytes below the write cursor (code[0..code_pos) in C is *)
(* code[1..code_pos] here).  A C offset p is index p+1.                    *)
(***************************************************************************)
EXTENDS Integers, Sequences, FiniteSets, TLC

VARIABLES c, phase, elf, m, inp, ref, proc

vars == <<c, phase, elf, m, inp, ref, proc>>

(***************************************************************************)
(* Program constants                                                       *)
(***************************************************************************)
MAX_CODE == 4194304
MAX_DATA == 1048576
MAX_VARS == 4096
MAX_FUNCS == 2048
MAX_LABELS == 8192
MAX_IDENT == 256
MAX_POOLS == 16
STR_BUF == 4096
LABEL_LEN == 63
MAX_LOOP_DEPTH == 16
MAX_PARAMS == 16
GLOBAL_BASE == 6291456
ELF_BASE == 4194304

(***************************************************************************)
(* Integer helpers: fixed-width arithmetic of the C code                   *)
(***************************************************************************)
Min(a, b) == IF a < b THEN a ELSE b
Max(a, b) == IF a > b THEN a ELSE b

\* (uint8_t)v
U8(v) == v % 256

\* two's-complement reading of a byte
S8(b) == IF b >= 128 THEN b - 256 ELSE b

\* little-endian bytes of a signed 32-bit value, as emit_u32 lays them out
\* (\div and % floor, so a negative v yields its two's-complement bytes)
le32(v) ==
  << v % 256, (v \div 256) % 256, (v \div 65536) % 256, (v \div 16777216) % 256 >>

\* 64-bit little-endian bytes of a value in the signed 32-bit range: the high
\* half is the sign extension
le64(v) == le32(v) \o (IF v < 0 THEN <<255, 255, 255, 255>> ELSE <<0, 0, 0, 0>>)

\* signed value of four little-endian bytes
rd_s32(bs) == bs[1] + 256 * bs[2] + 65536 * bs[3] + 16777216 * S8(bs[4])

\* value of eight little-endian bytes holding a sign-extended 32-bit value
rd_s64(bs) == rd_s32(SubSeq(bs, 1, 4))

\* least element of a non-empty set of integers
SetMin(S) == CHOOSE x \in S : \A y \in S : x <= y

Take(s, n) == SubSeq(s, 1, Min(n, Len(s)))
Drop(s, n) == SubSeq(s, n + 1, Len(s))

(***************************************************************************)
(* CodeGen                                                                 *)
(***************************************************************************)
codegen_init ==
  [ code |-> <<>>, code_pos |-> 0, code_cap |-> MAX_CODE,
    data |-> <<>>, data_pos |-> 0, data_cap |-> MAX_DATA,
    vars |-> <<>>, var_count |-> 0, stack_size |-> 0,
    global_var_count |-> 0, global_data_pos |-> 0,
    funcs |-> <<>>, func_count |-> 0,
    fixups |-> <<>>, fixup_count |-> 0,
    labels |-> <<>>, label_count |-> 0,
    when_id |-> 0, loop_id |-> 0, platform |-> 1,
    raw_mode |-> FALSE, in_function |-> FALSE ]

\* ---- byte emission ----
\* faulty variant of emit_byte: the capacity test admits code_pos = code_cap
emit_byte_past_cap(cg, b) ==
  IF cg.code_pos <= cg.code_cap
  THEN [cg EXCEPT !.code = Append(@, U8(b)), !.code_pos = @ + 1]
  ELSE cg

emit_byte(cg, b) ==
  IF cg.code_pos < cg.code_cap
  THEN [cg EXCEPT !.code = Append(@, U8(b)), !.code_pos = @ + 1]
  ELSE cg

\* a run of emit_byte calls: each byte is stored while the buffer has room
emit_bytes(cg, bytes) ==
  IF cg.code_pos + Len(bytes) <= cg.code_cap
  THEN [cg EXCEPT !.code = @ \o [i \in 1..Len(bytes) |-> U8(bytes[i])],
                  !.code_pos = @ + Len(bytes)]
  ELSE [cg EXCEPT !.code = @ \o [i \in 1..(cg.code_cap - cg.code_pos) |-> U8(bytes[i])],
                  !.code_pos = cg.code_cap]

emit_u32(cg, v) == emit_bytes(cg, le32(v))
emit_i32(cg, v) == emit_u32(cg, v)
emit_u64(cg, v) == emit_bytes(cg, le64(v))

\* ---- labels and fixups ----
\* strncpy(dst, name, 63) into a 64-byte field
strncpy_label(name) == Take(name, LABEL_LEN)

add_label(cg, name) ==
  IF cg.label_count < MAX_LABELS
  THEN [cg EXCEPT !.labels = Append(@, [name |-> strncpy_label(name), pos |-> cg.code_pos]),
                  !.label_count = @ + 1]
  ELSE cg

add_fixup(cg, label) ==
  LET rec == IF cg.fixup_count < MAX_LABELS
             THEN [cg EXCEPT !.fixups = Append(@, [pos |-> cg.code_pos,
                                                   label |-> strncpy_label(label)]),
                             !.fixup_count = @ + 1]
             ELSE cg
  IN emit_u32(rec, 0)

\* code[p] = b : bytes at or past the cursor are not part of the written image
store_code(code, p, b) ==
  IF p < Len(code) THEN [code EXCEPT ![p + 1] = U8(b)] ELSE code

\* faulty variant of first_label_from: the scan does not stop at the first match, so the
\* last matching label wins
RECURSIVE last_label_from(_, _, _)
last_label_from(cg, name, j) ==
  IF j > cg.label_count THEN 0
  ELSE LET rest == last_label_from(cg, name, j + 1) IN
       IF rest # 0 THEN rest
       ELSE IF cg.labels[j].name = name THEN j ELSE 0

\* inner loop of resolve_fixups: index of the first label (from j) named like the fixup, 0 if none
first_label_from(cg, name, j) ==
  IF \A k \in j..cg.label_count : cg.labels[k].name # name THEN 0
  ELSE SetMin({ k \in j..cg.label_count : cg.labels[k].name = name })

patch_fixup(cg, i, j) ==
  LET fix_pos == cg.fixups[i].pos
      target == cg.labels[j].pos
      offset == le32(target - fix_pos - 4)
  IN [cg EXCEPT !.code = store_code(store_code(store_code(store_code(@,
                    fix_pos, offset[1]), fix_pos + 1, offset[2]),
                    fix_pos + 2, offset[3]), fix_pos + 3, offset[4])]

RECURSIVE resolve_from(_, _)
resolve_from(cg, i) ==
  IF i > cg.fixup_count THEN cg
  ELSE LET j == first_label_from(cg, cg.fixups[i].label, 1) IN
       resolve_from(IF j = 0 THEN cg ELSE patch_fixup(cg, i, j), i + 1)

resolve_fixups(cg) == resolve_from(cg, 1)

(***************************************************************************)
(* x86-64 instruction generation                                           *)
(***************************************************************************)
gen_push_rbp(cg) == emit_byte(cg, 85)
gen_pop_rbp(cg) == emit_byte(cg, 93)
gen_push_rax(cg) == emit_byte(cg, 80)
gen_pop_rax(cg) == emit_byte(cg, 88)
gen_push_rbx(cg) == emit_byte(cg, 83)
gen_pop_rbx(cg) == emit_byte(cg, 91)

gen_mov_rbp_rsp(cg) == emit_bytes(cg, <<72, 137, 229>>)
gen_mov_rsp_rbp(cg) == emit_bytes(cg, <<72, 137, 236>>)
gen_ret(cg) == emit_byte(cg, 195)
gen_syscall(cg) == emit_bytes(cg, <<15, 5>>)
gen_pause(cg) == emit_bytes(cg, <<243, 144>>)
gen_nop(cg) == emit_byte(cg, 144)

gen_sub_rsp(cg, n) == emit_i32(emit_bytes(cg, <<72, 129, 236>>), n)
gen_add_rsp(cg, n) == emit_i32(emit_bytes(cg, <<72, 129, 196>>), n)

gen_mov_rax_imm(cg, v) == emit_u64(emit_bytes(cg, <<72, 184>>), v)
gen_mov_rdi_imm(cg, v) == emit_u64(emit_bytes(cg, <<72, 191>>), v)
gen_mov_rsi_imm(cg, v) == emit_u64(emit_bytes(cg, <<72, 190>>), v)
gen_mov_rdx_imm(cg, v) == emit_u64(emit_bytes(cg, <<72, 186>>), v)

gen_mov_rdi_rax(cg) == emit_bytes(cg, <<72, 137, 199>>)
gen_mov_rsi_rax(cg) == emit_bytes(cg, <<72, 137, 198>>)
gen_mov_rdx_rax(cg) == emit_bytes(cg, <<72, 137, 194>>)

gen_mov_rax_rbp_off(cg, off) == emit_i32(emit_bytes(cg, <<72, 139, 133>>), off)
gen_mov_rbp_off_rax(cg, off) == emit_i32(emit_bytes(cg, <<72, 137, 133>>), off)

\* movabs rax, addr; mov rax, [rax]
gen_mov_rax_abs(cg, addr) ==
  emit_bytes(emit_u64(emit_bytes(cg, <<72, 184>>), addr), <<72, 139, 0>>)

\* push rax; movabs rbx, addr; pop rax; mov [rbx], rax
gen_mov_abs_rax(cg, addr) ==
  emit_bytes(emit_byte(emit_u64(emit_bytes(emit_byte(cg, 80), <<72, 187>>), addr), 88),
             <<72, 137, 3>>)

gen_load_var(cg, v) ==
  IF v.is_global THEN gen_mov_rax_abs(cg, v.global_addr)
  ELSE gen_mov_rax_rbp_off(cg, v.stack_offset)

gen_store_var(cg, v) ==
  IF v.is_global THEN gen_mov_abs_rax(cg, v.global_addr)
  ELSE gen_mov_rbp_off_rax(cg, v.stack_offset)

gen_mul_rax_rbx(cg) == emit_bytes(cg, <<72, 15, 175, 195>>)
gen_div_rax_rbx(cg) == emit_bytes(emit_bytes(cg, <<72, 153>>), <<72, 247, 251>>)
gen_test_rax_rax(cg) == emit_bytes(cg, <<72, 133, 192>>)

gen_je(cg, label) == add_fixup(emit_bytes(cg, <<15, 132>>), label)
gen_jne(cg, label) == add_fixup(emit_bytes(cg, <<15, 133>>), label)
gen_jmp(cg, label) == add_fixup(emit_byte(cg, 233), label)
gen_call(cg, label) == add_fixup(emit_byte(cg, 232), label)

\* faulty variant of gen_exit: the status register is not loaded
gen_exit_no_status(cg, code) == gen_syscall(gen_mov_rax_imm(cg, 60))

gen_exit(cg, code) == gen_syscall(gen_mov_rdi_imm(gen_mov_rax_imm(cg, 60), code))

gen_exit_rax(cg) == gen_syscall(gen_mov_rax_imm(emit_bytes(cg, <<72, 137, 199>>), 60))

\* faulty variant of gen_prologue: the frame-base copy is left out
gen_prologue_no_frame(cg) == gen_push_rbp(cg)

gen_prologue(cg) == gen_mov_rbp_rsp(gen_push_rbp(cg))

gen_epilogue(cg) == gen_ret(gen_pop_rbp(gen_mov_rsp_rbp(cg)))

\* faulty variant of gen_event_loop: the jump targets itself
gen_event_loop_self(cg) == emit_bytes(gen_pause(cg), <<235, 254>>)

gen_event_loop(cg) == emit_bytes(gen_pause(cg), <<235, 252>>)

(***************************************************************************)
(* Telemetry: UnifiedField, TileManager, FateScheduler, Platform, Bridge,  *)
(* Compat.  A C double is held as an integer count of thousandths, the     *)
(* collapse threshold as the quotient num/den that the code computes.      *)
(***************************************************************************)
unified_init == [i |-> 500, e |-> 500, r |-> 500]

\* tile->unified points at the compiler's own field, so it is not copied here
tile_init == [pools |-> <<>>, pool_count |-> 0]

tile_add_pool(tile, base, size, purpose) ==
  IF tile.pool_count >= MAX_POOLS THEN tile
  ELSE [tile EXCEPT !.pools = Append(@, [base |-> base, size |-> size, used |-> 0,
                                          purpose |-> purpose]),
                    !.pool_count = @ + 1]

RECURSIVE pool_sum(_, _, _)
pool_sum(tile, i, fld) ==
  IF i > tile.pool_count THEN 0
  ELSE (IF fld = "size" THEN tile.pools[i].size ELSE tile.pools[i].used)
       + pool_sum(tile, i + 1, fld)

tile_total_used(tile) == pool_sum(tile, 1, "used")

\* used / total in thousandths
tile_ratio(tile) ==
  LET total == pool_sum(tile, 1, "size")
      used == pool_sum(tile, 1, "used")
  IN IF total > 0 THEN (used * 1000) \div total ELSE 0

fate_init ==
  [ on |-> TRUE, id_counter |-> 0, usage |-> 0, gain |-> 0, prev_gain |-> 0,
    pattern_count |-> 0, field |-> unified_init, adapter_count |-> 0,
    learned |-> <<>>, learned_count |-> 0,
    marginal_threshold |-> [num |-> 5, den |-> 100] ]

RECURSIVE learned_index(_, _, _)
learned_index(fate, key, i) ==
  IF i > fate.learned_count THEN 0
  ELSE IF fate.learned[i].key = key THEN i
  ELSE learned_index(fate, key, i + 1)

fate_learn(fate, key, value) ==
  LET i == learned_index(fate, key, 1) IN
  IF i # 0 THEN [fate EXCEPT !.learned[i].value = value]
  ELSE IF fate.learned_count < 256
  THEN [fate EXCEPT !.learned = Append(@, [key |-> key, value |-> value]),
                    !.learned_count = @ + 1]
  ELSE fate

fate_observe(fate, tile) ==
  IF ~fate.on THEN fate
  ELSE [fate EXCEPT !.usage = tile_ratio(tile), !.pattern_count = @ + 1]

\* no adapter is ever registered, so the adapter loop runs zero times
fate_adapt(fate) ==
  IF ~fate.on THEN fate
  ELSE LET f1 == IF fate.usage > 700
                 THEN [fate EXCEPT !.field.e = Min(1000, @ + 100)] ELSE fate
       IN IF f1.pattern_count > 100
          THEN [f1 EXCEPT !.field.r = Min(1000, @ + 50)] ELSE f1

\* delta < marginal_threshold, with 1.0 / 0 read as +infinity
fate_should_collapse(fate) ==
  LET delta == fate.gain - fate.prev_gain
      t == fate.marginal_threshold
  IN IF t.den > 0 THEN delta * t.den < 1000 * t.num
     ELSE IF t.den < 0 THEN delta * t.den > 1000 * t.num
     ELSE t.num > 0

fate_collapse(fate) ==
  LET f1 == fate_learn(fate, "static:i", fate.field.i)
      f2 == fate_learn(f1, "static:e", f1.field.e)
      f3 == fate_learn(f2, "static:r", f2.field.r)
  IN [f3 EXCEPT !.on = FALSE]

fate_tick(fate, tile) ==
  IF ~fate.on THEN fate
  ELSE LET f1 == fate_adapt(fate_observe(fate, tile))
           col == fate_should_collapse(f1)
           f2 == [f1 EXCEPT !.prev_gain = f1.gain]
       IN IF col THEN fate_collapse(f2) ELSE f2

platform_init == [id |-> 0, syscall_base |-> 0, probed |-> FALSE]

\* returns <<platform, fate>>
platform_probe(p, fate) ==
  IF p.probed THEN <<p, fate>>
  ELSE LET f1 == [fate EXCEPT !.id_counter = @ + 1]
           p1 == [p EXCEPT !.id = f1.id_counter, !.syscall_base = 0, !.probed = TRUE]
           f2 == fate_learn(f1, "platform.id", p1.id * 1000)
           f3 == fate_learn(f2, "platform.syscall_base", p1.syscall_base * 1000)
       IN <<p1, f3>>

bridge_init == [display_ready |-> FALSE, input_ready |-> FALSE, width |-> 0, height |-> 0]

compat_init ==
  [ display_available |-> FALSE, input_available |-> FALSE, storage_available |-> FALSE,
    network_available |-> FALSE, audio_available |-> FALSE ]

compat_probe(fate) ==
  fate_learn(fate_learn(fate_learn(fate_learn(fate_learn(fate,
    "probe.display", 1000), "probe.input", 1000), "probe.storage", 1000),
    "probe.network", 1000), "probe.audio", 1000)

(***************************************************************************)
(* Compiler                                                                *)
(***************************************************************************)
compiler_init(source) ==
  LET pp == platform_probe(platform_init, fate_init) IN
  [ source |-> source, pos |-> 0, len |-> Len(source),
    fate_mode |-> TRUE, loop_depth |-> 0, loop_labels |-> <<>>,
    unified |-> unified_init, tile |-> tile_init,
    fate |-> compat_probe(pp[2]),
    codegen |-> codegen_init,
    platform |-> pp[1], bridge |-> bridge_init, compat |-> compat_init,
    current_func |-> 0, base_var_count |-> 0,
    \* build choice: whether the two advance() calls initialising hex[] in
    \* parse_string run left to right (their order is unspecified in C)
    hex_lr |-> TRUE,
    \* set when a loop of the compiler stops advancing: the C code never returns
    hang |-> FALSE,
    \* locals of compile(): the function count saved after the first pass and
    \* the index of the third pass
    saved_func_count |-> 0, fn_i |-> 0,
    \* locals of compile_function_body
    saved_var_count |-> 0, saved_stack_size |-> 0, saved_in_function |-> FALSE,
    saved_pos |-> 0 ]

(***************************************************************************)
(* Parsing helper functions                                                *)
(***************************************************************************)
peek(cc) == IF cc.pos < cc.len THEN cc.source[cc.pos + 1] ELSE 0
peek_n(cc, n) == IF cc.pos + n < cc.len THEN cc.source[cc.pos + n + 1] ELSE 0
\* advance() returns peek() and moves on; this is the moved-on compiler
advance(cc) == IF cc.pos < cc.len THEN [cc EXCEPT !.pos = @ + 1] ELSE cc

isdigit(ch) == ch >= 48 /\ ch <= 57
isalpha(ch) == (ch >= 65 /\ ch <= 90) \/ (ch >= 97 /\ ch <= 122)
isalnum(ch) == isalpha(ch) \/ isdigit(ch)
isxdigit(ch) == isdigit(ch) \/ (ch >= 65 /\ ch <= 70) \/ (ch >= 97 /\ ch <= 102)
isspace(ch) == ch = 32 \/ (ch >= 9 /\ ch <= 13)

\* while (pos < len && peek != '\n') advance
\* offsets from pos on at which the source holds a newline
newlines_from(cc) == { i \in cc.pos..(cc.len - 1) : cc.source[i + 1] = 10 }

\* while (pos < len && peek != '\n') advance: the cursor stops at the first
\* newline at or after pos, or at the end of the source
to_eol(cc) ==
  IF newlines_from(cc) = {} THEN [cc EXCEPT !.pos = Max(cc.pos, cc.len)]
  ELSE [cc EXCEPT !.pos = SetMin(newlines_from(cc))]

skip_line(cc) == LET c1 == to_eol(cc) IN IF peek(c1) = 10 THEN advance(c1) ELSE c1

RECURSIVE skip_whitespace(_)
skip_whitespace(cc) ==
  IF cc.pos >= cc.len THEN cc
  ELSE LET ch == peek(cc) IN
       IF ch = 32 \/ ch = 9 \/ ch = 10 \/ ch = 13 THEN skip_whitespace(advance(cc))
       ELSE IF ch = 47 /\ peek_n(cc, 1) = 47
       THEN skip_whitespace(skip_line(advance(advance(cc))))
       ELSE cc

match(cc, str) ==
  IF cc.pos + Len(str) > cc.len THEN FALSE
  ELSE SubSeq(cc.source, cc.pos + 1, cc.pos + Len(str)) = str

is_ident_start(ch) == isalpha(ch) \/ ch = 95
is_ident_char(ch) == isalnum(ch) \/ ch = 95 \/ ch = 46

\* returns [buf, c]
RECURSIVE parse_ident_from(_, _)
parse_ident_from(cc, buf) ==
  IF cc.pos < cc.len /\ is_ident_char(peek(cc)) /\ Len(buf) < MAX_IDENT - 1
  THEN parse_ident_from(advance(cc), Append(buf, peek(cc)))
  ELSE [buf |-> buf, c |-> cc]

parse_ident(cc) == parse_ident_from(cc, <<>>)

hexval(ch) ==
  IF isdigit(ch) THEN ch - 48
  ELSE IF ch >= 97 /\ ch <= 102 THEN ch - 97 + 10
  ELSE ch - 65 + 10

\* (char)strtol(hex, NULL, 16) on the two-character string hex, as a byte:
\* leading space and a sign are accepted, a bare "0x" prefix reads as 0
strtol_hex2(h1, h2) ==
  IF h1 = 0 THEN 0
  ELSE IF isxdigit(h1) THEN (IF isxdigit(h2) THEN 16 * hexval(h1) + hexval(h2) ELSE hexval(h1))
  ELSE IF isspace(h1) /\ isxdigit(h2) THEN hexval(h2)
  ELSE IF h1 = 43 /\ isxdigit(h2) THEN hexval(h2)
  ELSE IF h1 = 45 /\ isxdigit(h2) THEN U8(0 - hexval(h2))
  ELSE 0

\* the byte for the escape letter esc, with cc just past it; returns [b, c]
parse_escape(esc, cc) ==
  IF esc = 110 THEN [b |-> 10, c |-> cc]
  ELSE IF esc = 116 THEN [b |-> 9, c |-> cc]
  ELSE IF esc = 114 THEN [b |-> 13, c |-> cc]
  ELSE IF esc = 48 THEN [b |-> 0, c |-> cc]
  ELSE IF esc = 120 /\ cc.pos + 2 <= cc.len
  THEN LET a1 == peek(cc)
           a2 == peek(advance(cc))
       IN [b |-> IF cc.hex_lr THEN strtol_hex2(a1, a2) ELSE strtol_hex2(a2, a1),
           c |-> advance(advance(cc))]
  ELSE [b |-> esc, c |-> cc]

\* whether the loop of parse_string copies the character at offset i as it is:
\* it is not the closing quote and does not start an escape
is_plain(cc, i) ==
  cc.source[i + 1] # 34 /\ ~(cc.source[i + 1] = 92 /\ i + 1 < cc.len)

\* offsets from pos on at which the run of plainly copied characters stops:
\* a quote or an escape, the end of the source, or no room for one more byte
plain_stops(cc, bi) ==
  { i \in cc.pos..cc.len : i = cc.len \/ bi + (i - cc.pos) >= STR_BUF - 1 \/ ~is_plain(cc, i) }

\* the iterations of the parse_string loop that copy plain characters, taken
\* together: r = [buf, c] before them, stop the offset where the run ends
copy_plain(r, stop) ==
  [buf |-> r.buf \o SubSeq(r.c.source, r.c.pos + 1, stop), c |-> [r.c EXCEPT !.pos = stop]]

\* one iteration of the parse_string loop at an escape: c1 is past the '\'
copy_escape(buf, e) == [buf |-> Append(buf, e.b), c |-> e.c]

\* the loop of parse_string; r = [buf, c], buf holding buf[0..bi)
RECURSIVE parse_string_from(_)
parse_string_from(r) ==
  IF r.c.pos < r.c.len /\ peek(r.c) # 34 /\ Len(r.buf) < STR_BUF - 1
  THEN IF peek(r.c) = 92 /\ r.c.pos + 1 < r.c.len
       THEN parse_string_from(copy_escape(r.buf,
              parse_escape(peek(advance(r.c)), advance(advance(r.c)))))
       ELSE parse_string_from(copy_plain(r, SetMin(plain_stops(advance(r.c), Len(r.buf) + 1))))
  ELSE [buf |-> r.buf, c |-> IF peek(r.c) = 34 THEN advance(r.c) ELSE r.c]

\* returns [buf, c]: buf is the resolved bytes buf[0..bi); the C buffer holds
\* buf followed by the terminating 0 written at buf[bi]
parse_string(cc) ==
  parse_string_from([buf |-> <<>>, c |-> IF peek(cc) = 34 THEN advance(cc) ELSE cc])

\* strlen of the C buffer buf ++ <<0>>: the bytes before the first zero
strlen(buf) ==
  IF \A i \in 1..Len(buf) : buf[i] # 0 THEN Len(buf)
  ELSE SetMin({ i \in 1..Len(buf) : buf[i] = 0 }) - 1

strlen_c(buf) == strlen(buf)

\* returns [num, c]
RECURSIVE hex_digits(_, _)
hex_digits(cc, num) ==
  IF cc.pos < cc.len /\ isxdigit(peek(cc))
  THEN hex_digits(advance(cc), num * 16 + hexval(peek(cc)))
  ELSE [num |-> num, c |-> cc]

RECURSIVE dec_digits(_, _)
dec_digits(cc, num) ==
  IF cc.pos < cc.len /\ isdigit(peek(cc))
  THEN dec_digits(advance(cc), num * 10 + (peek(cc) - 48))
  ELSE [num |-> num, c |-> cc]

\* the decimal part: each digit adds (int64_t)(digit * frac) with frac <= 0.1,
\* which is 0
RECURSIVE frac_digits(_, _)
frac_digits(cc, num) ==
  IF cc.pos < cc.len /\ isdigit(peek(cc))
  THEN frac_digits(advance(cc), num + 0)
  ELSE [num |-> num, c |-> cc]

\* the decimal part of a number, if any
number_fraction(whole) ==
  IF peek(whole.c) = 46 THEN frac_digits(advance(whole.c), whole.num) ELSE whole

\* the digits of a number, after its sign
number_digits(c1) ==
  number_fraction(IF peek(c1) = 48 /\ peek_n(c1, 1) = 120
                  THEN hex_digits(advance(advance(c1)), 0)
                  ELSE dec_digits(c1, 0))

\* return neg ? -num : num
number_negate(full) == [full EXCEPT !.num = 0 - @]

\* returns [num, c]
parse_number(cc) ==
  IF peek(cc) = 45 THEN number_negate(number_digits(advance(cc))) ELSE number_digits(cc)

(***************************************************************************)
(* Expression compilation.  compile_expr's return value `left` is used by  *)
(* no caller and is left out; the operators return the compiler.           *)
(***************************************************************************)
CG(cc, cg) == [cc EXCEPT !.codegen = cg]

Skip(cc, n) == [cc EXCEPT !.pos = @ + n]

\* find_var: index of the most recently added variable of that name, 0 if none
RECURSIVE find_var_from(_, _, _)
find_var_from(cg, name, i) ==
  IF i < 1 THEN 0
  ELSE IF cg.vars[i].name = name THEN i
  ELSE find_var_from(cg, name, i - 1)

\* strncpy(dst, name, MAX_IDENT - 1)
strncpy_ident(name) == Take(name, MAX_IDENT - 1)

\* faulty variant of find_var: the oldest variable of that name is returned
find_var_oldest(cg, name) ==
  IF \A k \in 1..cg.var_count : cg.vars[k].name # strncpy_ident(name) THEN 0
  ELSE SetMin({ k \in 1..cg.var_count : cg.vars[k].name = strncpy_ident(name) })

find_var(cg, name) == find_var_from(cg, strncpy_ident(name), cg.var_count)

\* if (peek(c) == ch) advance(c);
opt_char(cc, ch) == IF peek(cc) = ch THEN advance(cc) ELSE cc

\* skip_whitespace(c); if (peek(c) == ch) advance(c);
skip_ws_opt(cc, ch) == opt_char(skip_whitespace(cc), ch)

\* while (peek(c) != ch && c->pos < c->len) advance(c);
RECURSIVE find_char(_, _)
find_char(cc, ch) ==
  IF peek(cc) # ch /\ cc.pos < cc.len THEN find_char(advance(cc), ch) ELSE cc

\* sub rsp,16; read(0, rsp, 1); movzx rax, byte [rsp]; add rsp,16
gen_getchar(cg) ==
  gen_add_rsp(emit_bytes(gen_syscall(gen_mov_rdx_imm(emit_bytes(gen_mov_rdi_imm(
    gen_mov_rax_imm(gen_sub_rsp(cg, 16), 0), 0), <<72, 141, 52, 36>>), 1)),
    <<72, 15, 182, 4, 36>>), 16)

\* sub rsp,16; mov [rsp], al; write(1, rsp, 1); add rsp,16
gen_putchar(cg) ==
  gen_add_rsp(gen_syscall(gen_mov_rdx_imm(emit_bytes(gen_mov_rdi_imm(gen_mov_rax_imm(
    emit_bytes(gen_sub_rsp(cg, 16), <<136, 4, 36>>), 1), 1), <<72, 141, 52, 36>>), 1)), 16)

\* the lea that follows the inlined string: g2 is the generator after the
\* string bytes, str_pos the offset of the first of them
string_lea(g2, str_pos) ==
  emit_i32(emit_bytes(g2, <<72, 141, 5>>), 0 - (g2.code_pos - str_pos + 7))

\* the inlined bytes str[0..len] of the string-literal primary, g1 being the
\* generator after the jmp
string_bytes(g1, buf, len) ==
  string_lea(emit_bytes(g1, Take(buf, len) \o <<0>>), g1.code_pos)

\* emit_byte(0xeb); emit_byte(len + 1)
string_jmp(cg, len) == emit_byte(emit_byte(cg, 235), len + 1)

\* the string-literal primary, given the parsed C string: jmp short over len+1
\* bytes, the bytes str[0..len], then lea rax, [rip + rel]
gen_string_primary(cg, buf) ==
  string_bytes(string_jmp(cg, strlen_c(buf)), buf, strlen_c(buf))

\* faulty variant of binop_tail: the ordering comparisons take the right
\* operand as the left one, and the subtraction lacks the three-move idiom
binop_tail_reversed(kind) ==
  CASE kind = "add" -> <<91, 72, 1, 216>>
    [] kind = "sub" -> <<91, 72, 137, 193, 72, 41, 200>>
    [] kind = "mul" -> <<91, 72, 15, 175, 195>>
    [] kind = "div" -> <<72, 137, 195, 88, 72, 153, 72, 247, 251>>
    [] kind = "ge" -> <<91, 72, 57, 195, 15, 158, 192, 72, 15, 182, 192>>
    [] kind = "le" -> <<91, 72, 57, 195, 15, 157, 192, 72, 15, 182, 192>>
    [] kind = "eq" -> <<91, 72, 57, 195, 15, 148, 192, 72, 15, 182, 192>>
    [] kind = "ne" -> <<91, 72, 57, 195, 15, 149, 192, 72, 15, 182, 192>>
    [] kind = "gt" -> <<91, 72, 57, 195, 15, 156, 192, 72, 15, 182, 192>>
    [] kind = "lt" -> <<91, 72, 57, 195, 15, 159, 192, 72, 15, 182, 192>>

\* bytes of one binary operator applied after the right operand is in rax
binop_tail(kind) ==
  CASE kind = "add" -> <<91, 72, 1, 216>>
    [] kind = "sub" -> <<91, 72, 137, 193, 72, 137, 216, 72, 41, 200>>
    [] kind = "mul" -> <<91, 72, 15, 175, 195>>
    [] kind = "div" -> <<72, 137, 195, 88, 72, 153, 72, 247, 251>>
    [] kind = "ge" -> <<91, 72, 57, 195, 15, 157, 192, 72, 15, 182, 192>>
    [] kind = "le" -> <<91, 72, 57, 195, 15, 158, 192, 72, 15, 182, 192>>
    [] kind = "eq" -> <<91, 72, 57, 195, 15, 148, 192, 72, 15, 182, 192>>
    [] kind = "ne" -> <<91, 72, 57, 195, 15, 149, 192, 72, 15, 182, 192>>
    [] kind = "gt" -> <<91, 72, 57, 195, 15, 159, 192, 72, 15, 182, 192>>
    [] kind = "lt" -> <<91, 72, 57, 195, 15, 156, 192, 72, 15, 182, 192>>

\* the operator of the two characters op, op2: [kind, width], kind "none" when
\* the loop breaks
binop_of(op, op2) ==
  IF op = 43 /\ op2 # 61 THEN [kind |-> "add", width |-> 1]
  ELSE IF op = 45 /\ ~isdigit(op2) /\ op2 # 61 THEN [kind |-> "sub", width |-> 1]
  ELSE IF op = 42 /\ op2 # 61 THEN [kind |-> "mul", width |-> 1]
  ELSE IF op = 47 /\ op2 # 61 THEN [kind |-> "div", width |-> 1]
  ELSE IF op = 62 /\ op2 = 61 THEN [kind |-> "ge", width |-> 2]
  ELSE IF op = 60 /\ op2 = 61 THEN [kind |-> "le", width |-> 2]
  ELSE IF op = 61 /\ op2 = 61 THEN [kind |-> "eq", width |-> 2]
  ELSE IF op = 33 /\ op2 = 61 THEN [kind |-> "ne", width |-> 2]
  ELSE IF op = 62 /\ op2 # 62 THEN [kind |-> "gt", width |-> 1]
  ELSE IF op = 60 /\ op2 # 60 THEN [kind |-> "lt", width |-> 1]
  ELSE [kind |-> "none", width |-> 0]

\* the operator at the cursor
binop_at(cc) == binop_of(peek(cc), peek_n(cc, 1))

\* the system call number of syscall.open / .read / .write
syscall_nr(sname) ==
  IF sname = <<111, 112, 101, 110>> (* "open" *) THEN 2
  ELSE IF sname = <<114, 101, 97, 100>> (* "read" *) THEN 0
  ELSE 1

\* faulty variant of call_cleanup: the pushed arguments are left on the stack
call_cleanup_none(cg, argc) == cg

\* if (argc > 0) gen_add_rsp(argc * 8)
call_cleanup(cg, argc) == IF argc > 0 THEN gen_add_rsp(cg, argc * 8) ELSE cg

\* after the argument loop a of a user call: ')' , call name, stack cleanup
call_finish(a, name) ==
  [opt_char(a.c, 41) EXCEPT !.codegen = call_cleanup(gen_call(@, name), a.argc)]

\* a variable reference: load it, or 0 when the name is unknown
load_ident(cg, name) ==
  IF find_var(cg, name) # 0 THEN gen_load_var(cg, cg.vars[find_var(cg, name)])
  ELSE gen_mov_rax_imm(cg, 0)

\* a number primary, n the parsed number
load_number(n) == [n.c EXCEPT !.codegen = gen_mov_rax_imm(@, n.num)]

\* a string-literal primary, s the parsed string
load_string(s) == [s.c EXCEPT !.codegen = gen_string_primary(@, s.buf)]

\* the name of a syscall.xxx intrinsic: re is [buf, c], the name and the
\* cursor after it
syscall_name(cc, rest) ==
  IF rest # <<>> /\ rest[1] = 46 THEN [buf |-> Drop(rest, 1), c |-> cc]
  ELSE IF peek(cc) = 46 THEN parse_ident(advance(cc))
  ELSE [buf |-> rest, c |-> cc]

RECURSIVE compile_expr(_)
RECURSIVE expr_primary(_)
RECURSIVE expr_ident(_, _)
RECURSIVE expr_binops(_)
RECURSIVE binop_apply(_, _)
RECURSIVE expr_call(_, _)
RECURSIVE expr_syscall(_)
RECURSIVE syscall_body(_, _)
RECURSIVE call_args(_, _, _)
RECURSIVE call_args_next(_, _, _, _)
RECURSIVE syscall_args3(_)
RECURSIVE syscall_mmap(_)
RECURSIVE push_args(_, _)

\* compile_expr(c); gen_push_rax; skip_whitespace; if (peek == ',') advance -- n times
\* (c1 is the compiler after one argument, computed before the next is compiled)
push_args(cc, n) ==
  IF n = 0 THEN cc
  ELSE CHOOSE r \in { push_args(c1, n - 1) :
                        c1 \in { skip_ws_opt([compile_expr(cc) EXCEPT
                                                !.codegen = gen_push_rax(@)], 44) } } : TRUE

\* three marshalled arguments: rdi, rsi, rdx
syscall_args3(cc) ==
  [compile_expr(push_args(cc, 2)) EXCEPT
     !.codegen = gen_mov_rdi_rax(gen_pop_rax(gen_mov_rsi_rax(gen_pop_rax(
                   gen_mov_rdx_rax(@)))))]

\* six marshalled arguments: rdi, rsi, rdx, r10, r8, r9
syscall_mmap(cc) ==
  [compile_expr(push_args(cc, 5)) EXCEPT
     !.codegen = gen_syscall(gen_mov_rax_imm(gen_mov_rdi_rax(gen_pop_rax(gen_mov_rsi_rax(
                   gen_pop_rax(gen_mov_rdx_rax(gen_pop_rax(emit_bytes(emit_bytes(emit_bytes(
                     @, <<73, 137, 193>>), <<65, 88>>), <<65, 90>>))))))), 9))]

\* the end of one iteration of the argument loop, which began at offset pos0
call_args_next(pos0, c3, argc, limit) ==
  IF limit < 0 /\ c3.pos = pos0
  THEN [c |-> [c3 EXCEPT !.hang = TRUE], argc |-> argc]
  ELSE call_args(c3, argc, limit)

\* the argument loop of a call; limit is 16 in an expression, none (-1) in a statement
call_args(cc, argc, limit) ==
  IF peek(cc) # 41 /\ cc.pos < cc.len /\ (limit < 0 \/ argc < limit)
  THEN call_args_next(cc.pos,
         skip_whitespace(skip_ws_opt(
           [compile_expr(cc) EXCEPT !.codegen = gen_push_rax(@)], 44)),
         argc + 1, limit)
  ELSE [c |-> cc, argc |-> argc]

\* the intrinsic sname compiled from c1, the cursor past its '('
syscall_body(sname, c1) ==
  IF sname = <<111, 112, 101, 110>> (* "open" *) \/ sname = <<114, 101, 97, 100>> (* "read" *) \/ sname = <<119, 114, 105, 116, 101>> (* "write" *)
  THEN [syscall_args3(c1) EXCEPT
          !.codegen = gen_syscall(gen_mov_rax_imm(@, syscall_nr(sname)))]
  ELSE IF sname = <<99, 108, 111, 115, 101>> (* "close" *)
  THEN [compile_expr(c1) EXCEPT
          !.codegen = gen_syscall(gen_mov_rax_imm(gen_mov_rdi_rax(@), 3))]
  ELSE IF sname = <<109, 109, 97, 112>> (* "mmap" *) THEN syscall_mmap(c1)
  ELSE c1

\* syscall.xxx( ... ) inside an expression; re is the intrinsic's name and the
\* cursor after it
expr_syscall(re) == skip_ws_opt(syscall_body(re.buf, skip_ws_opt(re.c, 40)), 41)

\* identifier followed by '(' ; cc is past '(' and white space
expr_call(cc, name) ==
  IF name = <<103, 101, 116, 99, 104, 97, 114>> (* "getchar" *)
  THEN [opt_char(cc, 41) EXCEPT !.codegen = gen_getchar(@)]
  ELSE IF name = <<112, 101, 101, 107>> (* "peek" *)
  THEN [skip_ws_opt(compile_expr(cc), 41) EXCEPT
          !.codegen = emit_bytes(@, <<72, 15, 182, 0>>)]
  ELSE IF name = <<112, 111, 107, 101>> (* "poke" *)
  THEN [skip_ws_opt(compile_expr(skip_whitespace(skip_ws_opt(
          [compile_expr(cc) EXCEPT !.codegen = gen_push_rax(@)], 44))), 41) EXCEPT
          !.codegen = emit_bytes(gen_pop_rbx(@), <<136, 3>>)]
  ELSE IF Take(name, 7) = <<115, 121, 115, 99, 97, 108, 108>> (* "syscall" *)
  THEN expr_syscall(syscall_name(cc, Drop(name, 7)))
  ELSE call_finish(call_args(cc, 0, MAX_PARAMS), name)

\* an identifier primary; c1 is past the identifier and white space
expr_ident(c1, name) ==
  IF peek(c1) = 40 THEN expr_call(skip_whitespace(advance(c1)), name)
  ELSE [c1 EXCEPT !.codegen = load_ident(@, name)]

\* the identifier id = [buf, c] just parsed, as a primary
ident_primary(id) == expr_ident(skip_whitespace(id.c), id.buf)

\* the primary expression; cc is past leading white space
expr_primary(cc) ==
  IF isdigit(peek(cc)) \/ (peek(cc) = 45 /\ isdigit(peek_n(cc, 1)))
  THEN load_number(parse_number(cc))
  ELSE IF peek(cc) = 34 THEN load_string(parse_string(cc))
  ELSE IF is_ident_start(peek(cc)) THEN ident_primary(parse_ident(cc))
  ELSE IF peek(cc) = 40 THEN skip_ws_opt(compile_expr(advance(cc)), 41)
  ELSE [cc EXCEPT !.codegen = gen_mov_rax_imm(@, 0)]

\* one operator of the binary-operator loop: push, right operand, apply
binop_apply(cc, op) ==
  IF op.kind = "none" THEN cc
  ELSE expr_binops(
         [compile_expr([Skip(cc, op.width) EXCEPT !.codegen = gen_push_rax(@)]) EXCEPT
            !.codegen = emit_bytes(@, binop_tail(op.kind))])

\* the binary-operator loop
expr_binops(cc) == IF cc.pos >= cc.len THEN cc ELSE binop_apply(cc, binop_at(cc))

compile_expr(cc) == expr_binops(skip_whitespace(expr_primary(skip_whitespace(cc))))

(***************************************************************************)
(* Statement compilation                                                   *)
(***************************************************************************)
\* decimal digits of a non-negative int, as sprintf("%d") prints them
RECURSIVE Dec(_)
Dec(n) == IF n < 10 THEN <<48 + n>> ELSE Dec(n \div 10) \o <<48 + (n % 10)>>

\* the write(1, &bytes, len) after the inlined bytes: g2 is the generator
\* after the two mov, data_pos the offset of the first inlined byte
inline_write_lea(g2, data_pos, len) ==
  gen_syscall(gen_mov_rdx_imm(
    emit_i32(emit_bytes(g2, <<72, 141, 53>>), 0 - (g2.code_pos - data_pos + 7)), len))

\* the inlined bytes text[0..len), g1 being the generator after the jmp
inline_write_bytes(g1, buf, len) ==
  inline_write_lea(gen_mov_rdi_imm(gen_mov_rax_imm(emit_bytes(g1, Take(buf, len)), 1), 1),
                   g1.code_pos, len)

\* out "..." and emit "...": jmp near over len bytes, the bytes, then
\* write(1, &bytes, len)
gen_inline_write(cg, buf) ==
  inline_write_bytes(emit_i32(emit_byte(cg, 233), strlen_c(buf)), buf, strlen_c(buf))

\* the parsed string s = [buf, c] written inline, nothing when strlen is 0
inline_string(s) ==
  IF strlen_c(s.buf) = 0 THEN s.c ELSE [s.c EXCEPT !.codegen = gen_inline_write(@, s.buf)]

compile_out(cc) == inline_string(parse_string(skip_whitespace(cc)))

compile_emit(cc) == inline_string(parse_string(skip_whitespace(cc)))

\* inside a string while matching braces: up to (not past) the closing quote
RECURSIVE skip_quoted(_)
skip_quoted(cc) ==
  IF cc.pos < cc.len /\ peek(cc) # 34
  THEN skip_quoted(advance(IF peek(cc) = 92 THEN advance(cc) ELSE cc))
  ELSE cc

\* the depth after the character ch of a brace-matched region
brace_depth(ch, depth) ==
  IF ch = 123 THEN depth + 1 ELSE IF ch = 125 THEN depth - 1 ELSE depth

\* the cursor up to the last character the iteration consumes: a string up to
\* its closing quote, a '#' comment up to its newline
brace_skip(cc) ==
  IF peek(cc) = 34 THEN skip_quoted(advance(cc))
  ELSE IF peek(cc) = 35 THEN to_eol(cc)
  ELSE cc

\* one iteration of the brace-matching loop on the cursor and the depth; the
\* loop has ended when its condition fails, and s is left as it is
brace_iter(s) ==
  IF s.cc.pos < s.cc.len /\ s.depth > 0
  THEN [cc |-> advance(brace_skip(s.cc)), depth |-> brace_depth(peek(s.cc), s.depth)]
  ELSE s

RECURSIVE brace_iters(_, _)
\* n iterations, as two halves: x is the cursor and depth after the first
brace_iters(s, n) ==
  IF n <= 1 THEN brace_iter(s)
  ELSE CHOOSE r \in { brace_iters(x, n - (n \div 2)) : x \in { brace_iters(s, n \div 2) } } : TRUE

\* the brace-matching loop shared by compile_fn_def and skip_block_decl; each
\* iteration consumes a character, so len - pos iterations reach its end
skip_braces(cc, depth) ==
  brace_iters([cc |-> cc, depth |-> depth], Max(1, cc.len - cc.pos)).cc

RECURSIVE fn_params(_, _)
RECURSIVE fn_param(_, _)
RECURSIVE fn_params_skip(_, _, _)

\* one parameter name id = [buf, c] of the list
fn_param(id, params) ==
  fn_params(skip_whitespace(id.c), Append(params, strncpy_ident(id.buf)))

\* the else branch of the parameter loop: c1 is cc after skip_whitespace
fn_params_skip(cc, c1, params) ==
  IF c1.pos = cc.pos THEN [c |-> [cc EXCEPT !.hang = TRUE], params |-> params]
  ELSE fn_params(c1, params)

\* the parameter loop of compile_fn_def; returns [c, params]
fn_params(cc, params) ==
  IF cc.pos < cc.len /\ peek(cc) # 123 /\ Len(params) < MAX_PARAMS
  THEN IF is_ident_start(peek(cc)) THEN fn_param(parse_ident(cc), params)
       ELSE fn_params_skip(cc, skip_whitespace(cc), params)
  ELSE [c |-> cc, params |-> params]

\* funcs[func_count++] = fn : an entry left by an earlier pass is overwritten
put_func(cg, fn) ==
  [cg EXCEPT !.funcs = IF cg.func_count < Len(@) THEN [@ EXCEPT ![cg.func_count + 1] = fn]
                       ELSE Append(@, fn),
             !.func_count = @ + 1]

\* the Function entry compile_fn_def fills in
fn_entry(name, params, body_pos, body_end) ==
  [ name |-> strncpy_ident(name), code_offset |-> 0,
    param_count |-> Len(params), params |-> params,
    body_pos |-> body_pos, body_end |-> body_end ]

\* the body of a definition: c2 is the cursor after the matching '}'
fn_def_body(name, params, body_pos, c2) ==
  [c2 EXCEPT !.codegen = put_func(@, fn_entry(name, params, body_pos, c2.pos - 1))]

\* after the parameter list ps = [c, params]
fn_def_params(name, ps) ==
  IF ~ps.c.hang /\ peek(ps.c) = 123
  THEN fn_def_body(name, ps.params, ps.c.pos + 1, skip_braces(advance(ps.c), 1))
  ELSE [ps.c EXCEPT !.codegen = put_func(@, fn_entry(name, ps.params, 0, 0))]

\* after the function's name id = [buf, c]
fn_def_named(id) ==
  IF id.c.codegen.func_count >= MAX_FUNCS THEN id.c
  ELSE fn_def_params(id.buf, fn_params(skip_whitespace(id.c), <<>>))

compile_fn_def(cc) == fn_def_named(parse_ident(skip_whitespace(cc)))

\* loop_labels[loop_depth] = (start, end); loop_depth++
push_loop(cc, start_label, end_label) ==
  IF cc.loop_depth < MAX_LOOP_DEPTH
  THEN [cc EXCEPT !.loop_labels =
                    IF cc.loop_depth < Len(@)
                    THEN [@ EXCEPT ![cc.loop_depth + 1] =
                            [start |-> strncpy_label(start_label),
                             end |-> strncpy_label(end_label)]]
                    ELSE Append(@, [start |-> strncpy_label(start_label),
                                    end |-> strncpy_label(end_label)]),
                  !.loop_depth = @ + 1]
  ELSE cc

compile_break(cc) ==
  IF cc.loop_depth > 0
  THEN [cc EXCEPT !.codegen = gen_jmp(@, cc.loop_labels[cc.loop_depth].end)]
  ELSE cc

\* the optional return value
return_value(c1) ==
  IF c1.pos < c1.len /\ peek(c1) # 10 /\ peek(c1) # 125 THEN compile_expr(c1) ELSE c1

\* inside a loop a jump to its end label, else the epilogue
return_jump(c2) ==
  IF c2.loop_depth > 0
  THEN [c2 EXCEPT !.codegen = gen_jmp(@, c2.loop_labels[c2.loop_depth].end)]
  ELSE [c2 EXCEPT !.codegen = gen_epilogue(@)]

compile_return(cc) == return_jump(return_value(skip_whitespace(cc)))

\* cg->stack_size += 8 (the new local's offset is -stack_size)
local_slot(cg) == [cg EXCEPT !.stack_size = @ + 8]

\* cg->global_data_pos += 8; cg->global_var_count++
global_slot(cg) == [cg EXCEPT !.global_data_pos = @ + 8, !.global_var_count = @ + 1]

\* the Variable entry of a new local, g1 being the generator after local_slot
local_var(g1, name) ==
  [ name |-> strncpy_ident(name), type |-> "VAR_INT", int_val |-> 0,
    is_param |-> FALSE, is_global |-> FALSE, global_addr |-> 0,
    stack_offset |-> 0 - g1.stack_size ]

\* the Variable entry of a new global
global_var(cg, name) ==
  [ name |-> strncpy_ident(name), type |-> "VAR_INT", int_val |-> 0,
    is_param |-> FALSE, is_global |-> TRUE,
    global_addr |-> GLOBAL_BASE + cg.global_data_pos, stack_offset |-> 0 ]

\* vars[var_count++] = var
put_var(cg, var) ==
  [cg EXCEPT !.vars = Append(Take(@, cg.var_count), var), !.var_count = @ + 1]

\* returns [cg, v]: v the index of the new variable, 0 for NULL
add_var(cg, name) ==
  IF cg.var_count >= MAX_VARS THEN [cg |-> cg, v |-> 0]
  ELSE [ cg |-> IF cg.in_function
                THEN put_var(local_slot(cg), local_var(local_slot(cg), name))
                ELSE put_var(global_slot(cg), global_var(cg, name)),
         v |-> cg.var_count + 1 ]

\* Variable* v = find_var(name); if (!v) v = add_var(name);
find_or_add_var(cg, name) ==
  IF find_var(cg, name) = 0 THEN add_var(cg, name)
  ELSE [cg |-> cg, v |-> find_var(cg, name)]

\* the assignment to the variable added = [cg, v]; nothing when v is NULL
assign_var(c1, added) ==
  IF added.v = 0 THEN CG(c1, added.cg)
  ELSE [compile_expr(CG(c1, added.cg)) EXCEPT
          !.codegen = gen_store_var(@, @.vars[added.v])]

\* the assignment, c1 being past the white space after '='
assign_to(c1, name) == assign_var(c1, find_or_add_var(c1.codegen, name))

compile_assign(cc, name) == assign_to(skip_whitespace(cc), name)

\* after the keyword's line up to '{': the block is skipped when there is one
skip_decl_block(c1) == IF peek(c1) = 123 THEN skip_braces(advance(c1), 1) ELSE c1

skip_block_decl(cc) == skip_decl_block(find_char(cc, 123))

\* c->unified.<key> = val, for a known key
unified_store(cc, key, val) ==
  IF key = <<105>> (* "i" *) \/ key = <<105, 110, 102, 111, 114, 109, 97, 116, 105, 111, 110, 95, 100, 101, 110, 115, 105, 116, 121>> (* "information_density" *) THEN [cc EXCEPT !.unified.i = val]
  ELSE IF key = <<101>> (* "e" *) \/ key = <<101, 110, 116, 114, 111, 112, 121, 95, 103, 114, 97, 100, 105, 101, 110, 116>> (* "entropy_gradient" *) THEN [cc EXCEPT !.unified.e = val]
  ELSE IF key = <<114>> (* "r" *) \/ key = <<114, 101, 108, 97, 116, 105, 111, 110, 95, 115, 116, 114, 101, 110, 103, 116, 104>> (* "relation_strength" *) THEN [cc EXCEPT !.unified.r = val]
  ELSE cc

RECURSIVE unified_pairs(_)
RECURSIVE unified_pair(_, _)
RECURSIVE unified_value(_, _)
RECURSIVE unified_set(_, _, _)
RECURSIVE unified_next(_, _)

\* the end of one iteration, which began at offset pos0
unified_next(pos0, c3) ==
  IF c3.pos = pos0 THEN [c3 EXCEPT !.hang = TRUE] ELSE unified_pairs(c3)

\* the value n = [num, c] parsed for key; values are whole numbers, held in
\* thousandths
unified_set(pos0, key, n) ==
  unified_next(pos0, skip_ws_opt(unified_store(n.c, key, n.num * 1000), 44))

\* the key = [buf, c] parsed: ':' and the value follow
unified_value(pos0, key) ==
  unified_set(pos0, key.buf, parse_number(skip_whitespace(skip_ws_opt(key.c, 58))))

\* one iteration, c1 being past the white space
unified_pair(pos0, c1) ==
  IF peek(c1) = 125 THEN c1 ELSE unified_value(pos0, parse_ident(c1))

\* the key/value loop of parse_unified_block
unified_pairs(cc) ==
  IF cc.pos < cc.len /\ peek(cc) # 125 THEN unified_pair(cc.pos, skip_whitespace(cc))
  ELSE cc

\* if (peek(c) == '}') advance(c);
unified_close(c2) == IF ~c2.hang /\ peek(c2) = 125 THEN advance(c2) ELSE c2

\* the block, c1 being past the white space
unified_block(c1) ==
  IF peek(c1) # 123 THEN skip_line(c1) ELSE unified_close(unified_pairs(advance(c1)))

parse_unified_block(cc) == unified_block(skip_whitespace(cc))

\* the keywords whose block is skipped
BlockDeclKeywords ==
  { <<112, 111, 111, 108, 32>> (* "pool " *), <<102, 97, 116, 101, 32, 123>> (* "fate {" *), <<116, 97, 115, 107, 32, 123>> (* "task {" *), <<103, 112, 117, 32, 123>> (* "gpu {" *), <<112, 101, 114, 102, 32, 123>> (* "perf {" *), <<114, 101, 103, 32, 123>> (* "reg {" *), <<115, 121, 115, 32, 123>> (* "sys {" *),
    <<99, 111, 109, 112, 105, 108, 101, 114, 32, 123>> (* "compiler {" *), <<99, 111, 108, 108, 97, 112, 115, 101, 32, 123>> (* "collapse {" *), <<108, 105, 98, 32, 123>> (* "lib {" *), <<101, 110, 118, 32, 123>> (* "env {" *), <<114, 117, 108, 101, 32>> (* "rule " *), <<105, 110, 116, 101, 110, 116, 32>> (* "intent " *),
    <<112, 108, 97, 116, 102, 111, 114, 109, 32, 123>> (* "platform {" *), <<116, 105, 108, 101, 32, 123>> (* "tile {" *), <<99, 111, 100, 101, 103, 101, 110, 32, 123>> (* "codegen {" *), <<103, 114, 97, 112, 104, 105, 99, 115, 32, 123>> (* "graphics {" *), <<103, 117, 105, 32, 123>> (* "gui {" *), <<115, 116, 121, 108, 101, 32, 123>> (* "style {" *),
    <<108, 97, 121, 111, 117, 116, 32, 123>> (* "layout {" *), <<101, 118, 101, 110, 116, 32, 123>> (* "event {" *), <<100, 98, 32, 123>> (* "db {" *), <<99, 111, 114, 101, 32, 123>> (* "core {" *), <<107, 101, 114, 110, 101, 108, 32, 123>> (* "kernel {" *), <<108, 105, 110, 117, 120, 32, 123>> (* "linux {" *),
    <<109, 97, 99, 111, 115, 32, 123>> (* "macos {" *), <<119, 105, 110, 100, 111, 119, 115, 32, 123>> (* "windows {" *), <<100, 114, 105, 118, 101, 114, 32, 123>> (* "driver {" *), <<111, 98, 115, 101, 114, 118, 101, 32, 123>> (* "observe {" *), <<102, 105, 101, 108, 100, 32, 123>> (* "field {" *), <<117, 115, 101, 32>> (* "use " *) }

\* syscall.exit(N) with a literal N; n = [num, c] is the parsed number
exit_imm(n) == [opt_char(find_char(n.c, 41), 41) EXCEPT !.codegen = gen_exit(@, n.num)]

\* the argument of syscall.exit, c1 being past the white space
exit_arg(c1) ==
  IF (peek(c1) >= 48 /\ peek(c1) <= 57) \/ peek(c1) = 45 THEN exit_imm(parse_number(c1))
  ELSE [skip_ws_opt(compile_expr(c1), 41) EXCEPT !.codegen = gen_exit_rax(@)]

\* syscall.exit( ... ) ; cc is past the keyword
stmt_exit(cc) == exit_arg(skip_whitespace(cc))

\* after the argument loop a of a statement call
stmt_call_finish(a, name) == IF a.c.hang THEN a.c ELSE call_finish(a, name)

\* name(args) as a statement; cc is past '('
stmt_call(cc, name) == stmt_call_finish(call_args(skip_whitespace(cc), 0, -1), name)

\* Fate hook of compile_loop
fate_hook(cc) ==
  IF cc.fate_mode /\ cc.fate.on THEN [cc EXCEPT !.fate = fate_tick(cc.fate, cc.tile)]
  ELSE cc

\* c->fate.marginal_threshold = 1.0 / n, n = [num, c] being the parsed number
set_limit(n) == [n.c EXCEPT !.fate.marginal_threshold = [num |-> 1, den |-> n.num]]

\* sprintf(end_label, "_when_end_%d", id)
when_end_label(id) == <<95, 119, 104, 101, 110, 95, 101, 110, 100, 95>> (* "_when_end_" *) \o Dec(id)

\* sprintf(start_label, "_loop_start_%d", id)
loop_start_label(id) == <<95, 108, 111, 111, 112, 95, 115, 116, 97, 114, 116, 95>> (* "_loop_start_" *) \o Dec(id)

\* sprintf(end_label, "_loop_end_%d", id)
loop_end_label(id) == <<95, 108, 111, 111, 112, 95, 101, 110, 100, 95>> (* "_loop_end_" *) \o Dec(id)

\* if (c->loop_depth > 0) c->loop_depth--;
pop_loop(cc) == IF cc.loop_depth > 0 THEN [cc EXCEPT !.loop_depth = @ - 1] ELSE cc

RECURSIVE compile_statement(_)
RECURSIVE compile_block(_)
RECURSIVE block_items(_)
RECURSIVE block_item(_)
RECURSIVE block_opt(_)
RECURSIVE compile_when(_)
RECURSIVE when_body(_, _)
RECURSIVE compile_loop(_)
RECURSIVE loop_body(_, _)

\* if (peek(c) == '{') compile_block(c);
block_opt(cc) == IF peek(cc) = 123 THEN compile_block(cc) ELSE cc

\* the end of compile_when, c3 being the compiler after the block
when_end(c3, end_label) ==
  IF c3.hang THEN c3 ELSE [c3 EXCEPT !.codegen = add_label(@, end_label)]

\* test, je end, the block and the end label; c1 is the compiler after the condition
when_body(c1, end_label) ==
  when_end(block_opt(skip_whitespace(
             [c1 EXCEPT !.codegen = gen_je(gen_test_rax_rax(@), end_label)])),
           end_label)

compile_when(cc) ==
  when_body(compile_expr(skip_whitespace([cc EXCEPT !.codegen.when_id = @ + 1])),
            when_end_label(cc.codegen.when_id))

\* the end of compile_loop, c3 being the compiler after the block
loop_end(c3, id) ==
  IF c3.hang THEN c3
  ELSE pop_loop([fate_hook(c3) EXCEPT
                   !.codegen = add_label(gen_jmp(@, loop_start_label(id)),
                                         loop_end_label(id))])

\* the start label and the block; c1 is the compiler after the loop-stack push
loop_body(c1, id) ==
  loop_end(block_opt(skip_whitespace(
             [c1 EXCEPT !.codegen = add_label(@, loop_start_label(id))])), id)

compile_loop(cc) ==
  loop_body(push_loop([cc EXCEPT !.codegen.loop_id = @ + 1],
                      loop_start_label(cc.codegen.loop_id),
                      loop_end_label(cc.codegen.loop_id)),
            cc.codegen.loop_id)

\* one iteration of the statement loop, c1 being past the white space
block_item(c1) ==
  IF peek(c1) = 125 THEN advance(c1) ELSE block_items(compile_statement(c1))

\* the statement loop of compile_block
block_items(cc) ==
  IF cc.hang \/ cc.pos >= cc.len THEN cc ELSE block_item(skip_whitespace(cc))

compile_block(cc) == block_items(skip_ws_opt(cc, 123))


\* a statement that begins with the identifier `name`; c1 is past the
\* identifier and white space
statement_ident(c1, name) ==
  IF peek(c1) = 61 /\ peek_n(c1, 1) # 61 THEN compile_assign(advance(c1), name)
  ELSE IF peek(c1) = 40 THEN stmt_call(advance(c1), name)
  ELSE skip_line(c1)

\* the identifier id = [buf, c] just parsed, as the head of a statement
ident_statement(id) == statement_ident(skip_whitespace(id.c), id.buf)

\* syscall.write( / syscall.read( / syscall.open( as statements
stmt_syscall3(cc, width, nr) ==
  skip_ws_opt([syscall_args3(Skip(cc, width)) EXCEPT
                 !.codegen = gen_syscall(gen_mov_rax_imm(@, nr))], 41)

\* the statement at the cursor, which is past white space and inside the source
statement_at(cc) ==
  IF peek(cc) = 35 THEN skip_line(cc)
  ELSE IF match(cc, <<111, 117, 116, 32>> (* "out " *)) THEN compile_out(Skip(cc, 4))
  ELSE IF match(cc, <<101, 109, 105, 116, 32>> (* "emit " *)) THEN compile_emit(Skip(cc, 5))
  ELSE IF match(cc, <<102, 110, 32>> (* "fn " *)) THEN compile_fn_def(Skip(cc, 3))
  ELSE IF match(cc, <<119, 104, 101, 110, 32>> (* "when " *)) THEN compile_when(Skip(cc, 5))
  ELSE IF match(cc, <<108, 111, 111, 112>> (* "loop" *)) THEN compile_loop(skip_whitespace(Skip(cc, 4)))
  ELSE IF match(cc, <<98, 114, 101, 97, 107>> (* "break" *)) THEN compile_break(Skip(cc, 5))
  ELSE IF match(cc, <<114, 101, 116, 117, 114, 110>> (* "return" *)) \/ match(cc, <<45, 62, 32>> (* "-> " *))
  THEN compile_return(Skip(cc, IF match(cc, <<114, 101, 116, 117, 114, 110>> (* "return" *)) THEN 6 ELSE 3))
  ELSE IF match(cc, <<107, 101, 101, 112>> (* "keep" *)) THEN [Skip(cc, 4) EXCEPT !.codegen = gen_event_loop(@)]
  ELSE IF match(cc, <<102, 97, 116, 101, 32, 111, 110>> (* "fate on" *))
  THEN [Skip(cc, 7) EXCEPT !.fate_mode = TRUE, !.fate.on = TRUE]
  ELSE IF match(cc, <<102, 97, 116, 101, 32, 111, 102, 102>> (* "fate off" *))
  THEN [Skip(cc, 8) EXCEPT !.fate_mode = FALSE, !.fate.on = FALSE]
  ELSE IF match(cc, <<108, 105, 109, 105, 116, 32>> (* "limit " *)) THEN set_limit(parse_number(Skip(cc, 6)))
  ELSE IF match(cc, <<115, 121, 115, 99, 97, 108, 108, 46, 101, 120, 105, 116, 40>> (* "syscall.exit(" *)) THEN stmt_exit(Skip(cc, 13))
  ELSE IF match(cc, <<115, 121, 115, 99, 97, 108, 108, 46, 119, 114, 105, 116, 101, 40>> (* "syscall.write(" *)) \/ match(cc, <<115, 121, 115, 99, 97, 108, 108, 46, 114, 101, 97, 100, 40>> (* "syscall.read(" *))
          \/ match(cc, <<115, 121, 115, 99, 97, 108, 108, 46, 111, 112, 101, 110, 40>> (* "syscall.open(" *))
  THEN stmt_syscall3(cc, IF match(cc, <<115, 121, 115, 99, 97, 108, 108, 46, 119, 114, 105, 116, 101, 40>> (* "syscall.write(" *)) THEN 14 ELSE 13,
                     IF match(cc, <<115, 121, 115, 99, 97, 108, 108, 46, 119, 114, 105, 116, 101, 40>> (* "syscall.write(" *)) THEN 1
                     ELSE IF match(cc, <<115, 121, 115, 99, 97, 108, 108, 46, 114, 101, 97, 100, 40>> (* "syscall.read(" *)) THEN 0 ELSE 2)
  ELSE IF match(cc, <<115, 121, 115, 99, 97, 108, 108, 46, 99, 108, 111, 115, 101, 40>> (* "syscall.close(" *))
  THEN skip_ws_opt([compile_expr(Skip(cc, 14)) EXCEPT
                      !.codegen = gen_syscall(gen_mov_rax_imm(gen_mov_rdi_rax(@), 3))], 41)
  ELSE IF match(cc, <<115, 121, 115, 99, 97, 108, 108, 46, 109, 109, 97, 112, 40>> (* "syscall.mmap(" *)) THEN skip_ws_opt(syscall_mmap(Skip(cc, 13)), 41)
  ELSE IF match(cc, <<112, 111, 107, 101, 40>> (* "poke(" *))
  THEN skip_ws_opt([compile_expr(skip_whitespace(skip_ws_opt(
                      [compile_expr(Skip(cc, 5)) EXCEPT !.codegen = gen_push_rax(@)], 44)))
                    EXCEPT !.codegen = emit_bytes(gen_pop_rbx(@), <<136, 3>>)], 41)
  ELSE IF match(cc, <<112, 101, 101, 107, 40>> (* "peek(" *))
  THEN skip_ws_opt([compile_expr(Skip(cc, 5)) EXCEPT
                      !.codegen = emit_bytes(@, <<72, 15, 182, 0>>)], 41)
  ELSE IF match(cc, <<103, 101, 116, 99, 104, 97, 114, 40, 41>> (* "getchar()" *)) THEN [Skip(cc, 9) EXCEPT !.codegen = gen_getchar(@)]
  ELSE IF match(cc, <<112, 117, 116, 99, 104, 97, 114, 40>> (* "putchar(" *)) \/ match(cc, <<98, 121, 116, 101, 40>> (* "byte(" *))
  THEN [skip_ws_opt(compile_expr(Skip(cc, IF match(cc, <<112, 117, 116, 99, 104, 97, 114, 40>> (* "putchar(" *)) THEN 8 ELSE 5)), 41)
          EXCEPT !.codegen = gen_putchar(@)]
  ELSE IF match(cc, <<117, 110, 105, 102, 105, 101, 100, 32>> (* "unified " *)) \/ match(cc, <<117, 110, 105, 102, 105, 101, 100, 123>> (* "unified{" *))
  THEN parse_unified_block(Skip(cc, IF match(cc, <<117, 110, 105, 102, 105, 101, 100, 32>> (* "unified " *)) THEN 8 ELSE 7))
  ELSE IF match(cc, <<112, 108, 97, 116, 102, 111, 114, 109, 46, 112, 114, 111, 98, 101>> (* "platform.probe" *)) THEN Skip(cc, 14)
  ELSE IF match(cc, <<98, 114, 105, 100, 103, 101, 46, 114, 101, 97, 100>> (* "bridge.read" *)) THEN Skip(cc, 11)
  ELSE IF match(cc, <<99, 111, 109, 112, 97, 116, 46, 112, 114, 111, 98, 101>> (* "compat.probe" *)) THEN Skip(cc, 12)
  ELSE IF \E kw \in BlockDeclKeywords : match(cc, kw) THEN skip_block_decl(cc)
  ELSE IF match(cc, <<111, 116, 104, 101, 114, 119, 105, 115, 101>> (* "otherwise" *)) THEN block_opt(skip_whitespace(Skip(cc, 9)))
  ELSE IF is_ident_start(peek(cc)) THEN ident_statement(parse_ident(cc))
  ELSE skip_line(cc)

\* after the leading white space: nothing at the end of the source
statement_or_end(cc) == IF cc.pos >= cc.len THEN cc ELSE statement_at(cc)

compile_statement(cc) == statement_or_end(skip_whitespace(cc))

(***************************************************************************)
(* compile_function_body and the passes of compile()                       *)
(***************************************************************************)
\* faulty variant of param_offset: parameters bound in push order, first argument nearest
param_offset_reversed(param_count, i) == 16 + i * 8

\* frame offset of the i-th (0-based) of param_count parameters
param_offset(param_count, i) == 16 + (param_count - 1 - i) * 8

\* the Variable entry of parameter i of fn
param_var(fn, i) ==
  [ name |-> strncpy_ident(fn.params[i + 1]), type |-> "VAR_INT",
    int_val |-> 0, is_param |-> TRUE, is_global |-> FALSE,
    global_addr |-> 0,
    stack_offset |-> param_offset(fn.param_count, i) ]

\* the parameter binding loop: vars[var_count++] = parameter i
RECURSIVE bind_params(_, _, _)
bind_params(cg, fn, i) ==
  IF i >= fn.param_count THEN cg
  ELSE bind_params(put_var(cg, param_var(fn, i)), fn, i + 1)

\* faulty variant of restore_frame: the frame size of the finished body is kept
restore_frame_keep(cg, saved_var_count, saved_stack_size, saved_in_function) ==
  [cg EXCEPT !.var_count = saved_var_count,
             !.vars = Take(@, saved_var_count),
             !.in_function = saved_in_function]

\* the restores at the end of compile_function_body
restore_frame(cg, saved_var_count, saved_stack_size, saved_in_function) ==
  [cg EXCEPT !.var_count = saved_var_count,
             !.vars = Take(@, saved_var_count),
             !.stack_size = saved_stack_size,
             !.in_function = saved_in_function]

\* the start of compile_function_body: the saves, the parameters bound, the
\* cursor at the body
enter_function_body(cc, fi) ==
  [cc EXCEPT !.saved_var_count = cc.codegen.var_count,
             !.saved_stack_size = cc.codegen.stack_size,
             !.saved_in_function = cc.codegen.in_function,
             !.saved_pos = cc.pos,
             !.codegen = bind_params([@ EXCEPT !.in_function = TRUE], @.funcs[fi], 0),
             !.current_func = fi,
             !.pos = cc.codegen.funcs[fi].body_pos]

\* the end of compile_function_body, after the statement loop
leave_function_body(cc) ==
  [cc EXCEPT !.codegen = restore_frame(@, cc.saved_var_count, cc.saved_stack_size,
                                       cc.saved_in_function),
             !.pos = cc.saved_pos,
             !.current_func = 0]

\* compile(): the main prologue and the telemetry set-up
compile_begin(cc) ==
  [cc EXCEPT !.codegen = gen_sub_rsp(gen_prologue(@), 512),
             !.unified = unified_init,
             !.tile = tile_add_pool(tile_add_pool(tile_add_pool(tile_add_pool(tile_init,
                        65536, 65536, "blackhole"), 131072, 65536, "meshbrain"),
                        196608, 65536, "multinova"), 262144, 65536, "baseforce"),
             !.fate = fate_init]

\* one iteration of the first pass, c1 being past the white space
pass1_line(c1) ==
  IF match(c1, <<102, 110, 32>> (* "fn " *)) THEN compile_fn_def(Skip(c1, 3)) ELSE skip_line(c1)

\* one iteration of the first pass
pass1_step(cc) == pass1_line(skip_whitespace(cc))

\* between the passes: rewind, save the function count and reset it
pass1_end(cc) ==
  [cc EXCEPT !.pos = 0, !.saved_func_count = cc.codegen.func_count,
             !.codegen.func_count = 0]

\* faulty variant of pass2_end: the exit(0) of the main program is left out
pass2_end_no_exit(cc) ==
  [cc EXCEPT !.codegen.func_count = cc.saved_func_count, !.fn_i = 0]

\* after the second pass: restore the function count, then exit(0)
pass2_end(cc) ==
  [cc EXCEPT !.codegen = gen_exit([@ EXCEPT !.func_count = cc.saved_func_count], 0),
             !.fn_i = 0]

\* fn->code_offset = code_pos; add_label(fn->name)
function_label(cg, fi) ==
  add_label([cg EXCEPT !.funcs[fi].code_offset = cg.code_pos], cg.funcs[fi].name)

\* the third pass up to the statement loop of compile_function_body
function_begin(cc, fi) ==
  enter_function_body(
    [cc EXCEPT !.codegen = gen_sub_rsp(gen_prologue(function_label(@, fi)), 256)], fi)

\* the third pass after the statement loop: the restores, then add rsp,256;
\* pop rbp; ret, and i++
function_end(cc) ==
  [leave_function_body(cc) EXCEPT
     !.codegen = emit_byte(gen_pop_rbp(gen_add_rsp(@, 256)), 195),
     !.fn_i = @ + 1]

\* whether funcs[fi] has a body to emit
has_body(cg, fi) == cg.funcs[fi].body_pos > 0 /\ cg.funcs[fi].body_end > cg.funcs[fi].body_pos

(***************************************************************************)
(* ELF generator                                                           *)
(***************************************************************************)
Zeros(n) == [i \in 1..n |-> 0]

\* memcpy(buf + off, bytes, Len(bytes))
put_bytes(buf, off, bytes) ==
  [i \in 1..Len(buf) |-> IF i > off /\ i <= off + Len(bytes) THEN bytes[i - off] ELSE buf[i]]

elf_entry == ELF_BASE + 120

elf_ehdr ==
  put_bytes(put_bytes(put_bytes(put_bytes(put_bytes(put_bytes(put_bytes(put_bytes(put_bytes(
    Zeros(64), 0, <<127, 69, 76, 70, 2, 1, 1>>), 16, <<2>>), 18, <<62>>), 20, <<1>>),
    24, le64(elf_entry)), 32, le64(64)), 52, <<64>>), 54, <<56>>), 56, <<1>>)

\* faulty variant of elf_global_size: the floor of one page applied as a maximum
elf_global_size_max(cg) == Max(cg.global_data_pos, 4096)

elf_global_size(cg) == IF cg.global_data_pos > 0 THEN cg.global_data_pos ELSE 4096

elf_mem_size(cg) == GLOBAL_BASE - ELF_BASE + elf_global_size(cg) + 65536

\* faulty variant of elf_file_size: the headers are not counted
elf_file_size_no_headers(cg) == cg.code_pos + cg.data_pos

elf_file_size(cg) == 120 + (cg.code_pos + cg.data_pos)

elf_phdr(cg) ==
  put_bytes(put_bytes(put_bytes(put_bytes(put_bytes(put_bytes(put_bytes(
    Zeros(56), 0, le32(1)), 4, le32(7)), 16, le64(ELF_BASE)), 24, le64(ELF_BASE)),
    32, le64(elf_file_size(cg))), 40, le64(elf_mem_size(cg))), 48, le64(4096))

\* the file write_elf leaves behind when fopen succeeds
write_elf(cg) ==
  [ written |-> TRUE,
    bytes |-> elf_ehdr \o elf_phdr(cg) \o Take(cg.code, cg.code_pos)
                \o Take(cg.data, cg.data_pos),
    mode |-> 493 ]

\* the file write_raw leaves behind when fopen succeeds; no chmod follows (mode 0 here)
write_raw(cg) == [written |-> TRUE, bytes |-> Take(cg.code, cg.code_pos), mode |-> 0]
\* the state before any input is chosen
NoElf == [written |-> FALSE, bytes |-> <<>>, mode |-> 0]
NoMachine == [on |-> FALSE]
NoInput == [kind |-> "none"]
NoRef == [kept |-> FALSE]
\* the process before main returns: nothing printed, no exit status
NoProc == [stdout |-> <<>>, stderr |-> <<>>, status |-> -1]

(***************************************************************************)
(* SpecFixup: the label / fixup table driven directly, by any sequence of  *)
(* add_label, add_fixup and byte emissions, then resolve_fixups.           *)
(***************************************************************************)
\* bound: number of table and emit operations before resolution
MaxFixOps == 5

\* label names used by the calls: "a", "b", "ab"
FixNames == { <<97>>, <<98>>, <<97, 98>> }

InitFixup ==
  /\ c = compiler_init(<<>>)
  /\ phase = "open"
  /\ elf = NoElf
  /\ m = NoMachine
  /\ proc = NoProc
  /\ inp = [kind |-> "fixup", ops |-> 0]
  /\ ref = NoRef

FixOpen == phase = "open" /\ inp.ops < MaxFixOps

AddLabel(name) ==
  /\ FixOpen
  /\ c' = [c EXCEPT !.codegen = add_label(@, name)]
  /\ inp' = [inp EXCEPT !.ops = @ + 1]
  /\ UNCHANGED <<phase, elf, m, ref, proc>>

AddFixup(name) ==
  /\ FixOpen
  /\ c' = [c EXCEPT !.codegen = add_fixup(@, name)]
  /\ inp' = [inp EXCEPT !.ops = @ + 1]
  /\ UNCHANGED <<phase, elf, m, ref, proc>>

\* any other emitter: one opcode byte (0x90, nop)
EmitByte ==
  /\ FixOpen
  /\ c' = [c EXCEPT !.codegen = emit_byte(@, 144)]
  /\ inp' = [inp EXCEPT !.ops = @ + 1]
  /\ UNCHANGED <<phase, elf, m, ref, proc>>

ResolveFixups ==
  /\ phase = "open"
  /\ c' = [c EXCEPT !.codegen = resolve_fixups(@)]
  /\ phase' = "resolved"
  /\ UNCHANGED <<elf, m, inp, ref, proc>>

NextFixup ==
  \/ \E name \in FixNames : AddLabel(name)
  \/ \E name \in FixNames : AddFixup(name)
  \/ EmitByte
  \/ ResolveFixups

SpecFixup == InitFixup /\ [][NextFixup]_vars

\* the four bytes stored at C offset p
CodeAt4(cg, p) == SubSeq(cg.code, p + 1, p + 4)

\* indices of the labels carrying a name
LabelsNamed(cg, name) == { j \in 1..cg.label_count : cg.labels[j].name = name }


\* C1: after resolve_fixups every recorded fixup holds, as a signed 32-bit
\* little-endian integer, the offset of the first label of its name in table
\* order minus (fixup offset + 4); a fixup whose name has no label is still zero.
C1_FixupsResolved ==
  phase = "resolved" =>
    \A i \in 1..c.codegen.fixup_count :
      LET f == c.codegen.fixups[i]
          L == LabelsNamed(c.codegen, f.label)
      IN IF L = {}
         THEN CodeAt4(c.codegen, f.pos) = <<0, 0, 0, 0>>
         ELSE rd_s32(CodeAt4(c.codegen, f.pos))
                = c.codegen.labels[SetMin(L)].pos - (f.pos + 4)

\* a resolved table with a backward reference to a name defined twice at
\* different offsets, next to an unresolved fixup
C1_Witness ==
  /\ phase = "resolved"
  /\ \E i \in 1..c.codegen.fixup_count :
       LET f == c.codegen.fixups[i]
           L == LabelsNamed(c.codegen, f.label)
       IN /\ Cardinality({c.codegen.labels[j].pos : j \in L}) >= 2
          /\ c.codegen.labels[SetMin(L)].pos < f.pos
  /\ \E i \in 1..c.codegen.fixup_count :
       LabelsNamed(c.codegen, c.codegen.fixups[i].label) = {}

(***************************************************************************)
(* Spec: main() compiling one source text, pass by pass, then writing the  *)
(* output file.  The source is a concatenation of statement fragments.     *)
(***************************************************************************)
\* bound: number of fragments in a source text
MaxFrags == 3

Fragment(k) ==
  CASE k = 1 -> <<120, 32, 61, 32, 55, 10>> (* "x = 7\n" *)
    [] k = 2 -> <<121, 32, 61, 32, 120, 32, 43, 32, 49, 10>> (* "y = x + 1\n" *)
    [] k = 3 -> <<111, 117, 116, 32, 34, 104, 105, 34, 10>> (* "out \"hi\"\n" *)
    [] k = 4 -> <<108, 111, 111, 112, 32, 123, 32, 98, 114, 101, 97, 107, 32, 125, 10>> (* "loop { break }\n" *)
    [] k = 5 -> <<102, 110, 32, 102, 32, 97, 32, 123, 32, 117, 32, 61, 32, 97, 10, 32, 118, 32, 61, 32, 117, 10, 32, 45, 62, 32, 118, 32, 125, 10>> (* "fn f a { u = a\n v = u\n -> v }\n" *)
    [] k = 6 -> <<102, 110, 32, 103, 32, 123, 32, 119, 32, 61, 32, 49, 32, 125, 10>> (* "fn g { w = 1 }\n" *)
    [] k = 7 -> <<102, 40, 51, 41, 10>> (* "f(3)\n" *)
    [] k = 8 -> <<119, 104, 101, 110, 32, 120, 32, 123, 32, 107, 101, 101, 112, 32, 125, 10>> (* "when x { keep }\n" *)
    [] k = 9 -> <<102, 110, 32, 104, 10>> (* "fn h\n" *)
    [] k = 10 -> <<102, 110, 32, 101, 32, 123, 125, 10>> (* "fn e {}\n" *)
    [] k = 11 -> <<102, 97, 116, 101, 32, 111, 110, 32>> (* "fate on " *)
    [] k = 12 -> <<102, 97, 116, 101, 32, 111, 102, 102, 10>> (* "fate off\n" *)
    [] k = 13 -> <<108, 105, 109, 105, 116, 32, 50, 10>> (* "limit 2\n" *)
    [] k = 14 -> <<117, 110, 105, 102, 105, 101, 100, 32, 123, 32, 105, 58, 32, 49, 44, 32, 101, 58, 32, 48, 46, 53, 32, 125, 10>> (* "unified { i: 1, e: 0.5 }\n" *)

\* the fragments that compile to code
StatementIds == 1..10

\* the fragments that are telemetry-only statements; "fate on " shares its line
\* with the statement that follows it
TelemetryIds == 11..14

RECURSIVE Concat(_)
Concat(ks) == IF ks = <<>> THEN <<>> ELSE Fragment(Head(ks)) \o Concat(Tail(ks))

Init ==
  /\ \E ks \in UNION { [1..n -> StatementIds] : n \in 0..MaxFrags } :
       /\ inp = [kind |-> "source", frags |-> ks]
       /\ c = compiler_init(Concat(ks))
  /\ phase = "init"
  /\ elf = NoElf
  /\ m = NoMachine
  /\ proc = NoProc
  /\ ref = NoRef

CompileBegin ==
  /\ phase = "init"
  /\ c' = compile_begin(c)
  /\ phase' = "pass1"
  /\ UNCHANGED <<elf, m, inp, ref, proc>>

Pass1Step ==
  /\ phase = "pass1" /\ ~c.hang /\ c.pos < c.len
  /\ c' = pass1_step(c)
  /\ UNCHANGED <<phase, elf, m, inp, ref, proc>>

Pass1End ==
  /\ phase = "pass1" /\ ~c.hang /\ c.pos >= c.len
  /\ c' = pass1_end(c)
  /\ phase' = "pass2"
  /\ UNCHANGED <<elf, m, inp, ref, proc>>

Pass2Step ==
  /\ phase = "pass2" /\ ~c.hang /\ c.pos < c.len
  /\ c' = compile_statement(c)
  /\ UNCHANGED <<phase, elf, m, inp, ref, proc>>

Pass2End ==
  /\ phase = "pass2" /\ ~c.hang /\ c.pos >= c.len
  /\ c' = pass2_end(c)
  /\ phase' = "pass3"
  /\ UNCHANGED <<elf, m, inp, ref, proc>>

\* the third pass reaching a function with a body: label, prologue, and
\* compile_function_body up to its statement loop
FunctionBegin ==
  /\ phase = "pass3" /\ c.fn_i < c.codegen.func_count
  /\ has_body(c.codegen, c.fn_i + 1)
  /\ c' = function_begin(c, c.fn_i + 1)
  /\ phase' = "body"
  /\ UNCHANGED <<elf, m, inp, ref, proc>>

\* the third pass passing over a function without a body
FunctionSkip ==
  /\ phase = "pass3" /\ c.fn_i < c.codegen.func_count
  /\ ~has_body(c.codegen, c.fn_i + 1)
  /\ c' = [c EXCEPT !.fn_i = @ + 1]
  /\ UNCHANGED <<phase, elf, m, inp, ref, proc>>

\* one iteration of the statement loop of compile_function_body
BodyStep ==
  /\ phase = "body" /\ ~c.hang /\ c.pos < c.codegen.funcs[c.current_func].body_end
  /\ c' = compile_statement(c)
  /\ UNCHANGED <<phase, elf, m, inp, ref, proc>>

FunctionEnd ==
  /\ phase = "body" /\ ~c.hang /\ c.pos >= c.codegen.funcs[c.current_func].body_end
  /\ c' = function_end(c)
  /\ phase' = "pass3"
  /\ UNCHANGED <<elf, m, inp, ref, proc>>

Pass3End ==
  /\ phase = "pass3" /\ c.fn_i >= c.codegen.func_count
  /\ c' = [c EXCEPT !.codegen = resolve_fixups(@)]
  /\ phase' = "compiled"
  /\ UNCHANGED <<elf, m, inp, ref, proc>>

\* printf("%.2f") of a value held in thousandths: the sign, the whole part,
\* a point and two decimals, the third decimal rounded
fmt_2f_abs(h) ==
  Dec(h \div 100) \o <<46, 48 + ((h \div 10) % 10), 48 + (h % 10)>>

fmt_2f(t) ==
  IF t < 0 THEN <<45>> \o fmt_2f_abs((0 - t + 5) \div 10) ELSE fmt_2f_abs((t + 5) \div 10)

\* main() after write_elf / write_raw returned: the report on stdout, return 0
main_report(p, cc, line) ==
  [p EXCEPT !.stdout = @ \o << [line |-> line, args |-> <<>>],
                               [line |-> "   Unified: i=%.2f e=%.2f r=%.2f",
                                args |-> <<fmt_2f(cc.unified.i), fmt_2f(cc.unified.e),
                                           fmt_2f(cc.unified.r)>>] >>,
            !.status = 0]

\* main() writing the output; fopen may fail, and then nothing is written
WriteElf ==
  /\ phase = "compiled" /\ inp.kind \in {"source", "unified", "image"}
  /\ \E opened \in BOOLEAN : elf' = IF opened THEN write_elf(c.codegen) ELSE elf
  /\ proc' = main_report(proc, c, "Generated: ")
  /\ phase' = "done"
  /\ UNCHANGED <<c, m, inp, ref>>

WriteRaw ==
  /\ phase = "compiled" /\ inp.kind \in {"source", "unified", "image"}
  /\ \E opened \in BOOLEAN : elf' = IF opened THEN write_raw(c.codegen) ELSE elf
  /\ proc' = main_report(proc, c, "Generated raw: ")
  /\ phase' = "done-raw"
  /\ UNCHANGED <<c, m, inp, ref>>

Compile ==
  \/ CompileBegin
  \/ Pass1Step
  \/ Pass1End
  \/ Pass2Step
  \/ Pass2End
  \/ FunctionBegin
  \/ FunctionSkip
  \/ BodyStep
  \/ FunctionEnd
  \/ Pass3End

Next ==
  \/ Compile
  \/ WriteElf
  \/ WriteRaw

Spec == Init /\ [][Next]_vars

(***************************************************************************)
(* SpecTel: compile() run on a source without its telemetry-only           *)
(* statements, its tables kept, then run on the source with them.          *)
(***************************************************************************)
\* bound: number of fragments in a source text with telemetry statements
MaxTelFrags == 2

\* the fragments of ks that are not telemetry-only statements
RECURSIVE Strip(_)
Strip(ks) ==
  IF ks = <<>> THEN <<>>
  ELSE IF Head(ks) \in TelemetryIds THEN Strip(Tail(ks))
  ELSE <<Head(ks)>> \o Strip(Tail(ks))

\* the fragments that are complete statements; "fn h\n" is a function header
\* that takes the text after it for its parameter list
CompleteIds == (StatementIds \ {9}) \cup TelemetryIds

InitTel ==
  /\ \E ks \in UNION { [1..n -> CompleteIds] : n \in 0..MaxTelFrags } :
       /\ inp = [kind |-> "telemetry", frags |-> ks]
       /\ c = compiler_init(Concat(Strip(ks)))
  /\ phase = "init"
  /\ elf = NoElf
  /\ m = NoMachine
  /\ proc = NoProc
  /\ ref = NoRef

\* the first compilation is over: its code, labels and fixups are kept, and a
\* fresh compiler takes the source with the telemetry statements
TelSwitch ==
  /\ phase = "compiled" /\ inp.kind = "telemetry" /\ ~ref.kept
  /\ ref' = [ kept |-> TRUE,
              code |-> Take(c.codegen.code, c.codegen.code_pos),
              labels |-> Take(c.codegen.labels, c.codegen.label_count),
              fixups |-> Take(c.codegen.fixups, c.codegen.fixup_count) ]
  /\ c' = compiler_init(Concat(inp.frags))
  /\ phase' = "init"
  /\ UNCHANGED <<elf, m, inp, proc>>

NextTel ==
  \/ Compile
  \/ TelSwitch

SpecTel == InitTel /\ [][NextTel]_vars

\* C8: a source and the same source without its telemetry-only statements
\* (unified { ... }, fate on, fate off, limit N) compile to byte-identical code
\* buffers with identical label and fixup tables.
C8_TelemetryNonInterference ==
  (phase = "compiled" /\ ref.kept) =>
    /\ Take(c.codegen.code, c.codegen.code_pos) = ref.code
    /\ Take(c.codegen.labels, c.codegen.label_count) = ref.labels
    /\ Take(c.codegen.fixups, c.codegen.fixup_count) = ref.fixups


(***************************************************************************)
(* Properties of Spec                                                      *)
(***************************************************************************)
\* push rbp; mov rbp,rsp; sub rsp,512
MainPrologue == <<85, 72, 137, 229, 72, 129, 236, 0, 2, 0, 0>>

\* mov rax,60; mov rdi,0; syscall
ExitZero == <<72, 184, 60, 0, 0, 0, 0, 0, 0, 0, 72, 191, 0, 0, 0, 0, 0, 0, 0, 0, 15, 5>>

\* the eight bytes at file offset off of the written file
FileAt8(off) == SubSeq(elf.bytes, off + 1, off + 8)

ElfWritten == phase = "done" /\ elf.written

\* C2: for every source text the code buffer starts, from compile()'s first
\* step on, with the main prologue push rbp; mov rbp,rsp; sub rsp,512, and the
\* file write_elf writes has entry point 0x400000 + 64 + 56 in its header and
\* that prologue at file offset 120.
C2_EntryAndPrologue ==
  /\ phase # "init" => Take(c.codegen.code, 11) = MainPrologue
  /\ ElfWritten =>
       /\ rd_s64(FileAt8(24)) = ELF_BASE + 64 + 56
       /\ SubSeq(elf.bytes, 121, 131) = MainPrologue

\* a written executable of a source with a fixup patched by resolve_fixups
C2_Witness ==
  /\ ElfWritten
  /\ Len(inp.frags) > 0
  /\ c.codegen.fixup_count > 0

\* C3: the file size in the program header (p_filesz) and the number of bytes
\* write_elf writes both equal 120 + code_pos + data_pos of the final cursors.
C3_FileSize ==
  ElfWritten =>
    /\ rd_s64(FileAt8(64 + 32)) = 120 + c.codegen.code_pos + c.codegen.data_pos
    /\ Len(elf.bytes) = 120 + c.codegen.code_pos + c.codegen.data_pos

\* a written executable holding a function body after the main program
C3_Witness ==
  /\ ElfWritten
  /\ c.codegen.func_count > 0
  /\ c.codegen.code_pos > Len(MainPrologue) + Len(ExitZero)

\* the memory size field (p_memsz) of the written program header
MemSize == rd_s64(FileAt8(64 + 40))

\* every global slot lies inside the mapped range [ELF_BASE, ELF_BASE + MemSize)
GlobalsMapped ==
  /\ c.codegen.global_data_pos = 8 * c.codegen.global_var_count
  /\ GLOBAL_BASE >= ELF_BASE
  /\ GLOBAL_BASE + c.codegen.global_data_pos <= ELF_BASE + MemSize
  /\ \A i \in 1..c.codegen.var_count :
       c.codegen.vars[i].is_global =>
         /\ c.codegen.vars[i].global_addr >= GLOBAL_BASE
         /\ c.codegen.vars[i].global_addr + 8 <= GLOBAL_BASE + c.codegen.global_data_pos

\* C4 (as stated): the memory size is 0x600000 - 0x400000 + max(g, 0x1000)
\* + 0x10000 for g = 8 x number of globals, and the mapped range holds every
\* global slot.
C4_MemSizeMax ==
  ElfWritten =>
    /\ MemSize = GLOBAL_BASE - ELF_BASE + Max(c.codegen.global_data_pos, 4096) + 65536
    /\ GlobalsMapped

\* C4 (amended): the memory size is 0x600000 - 0x400000 + g + 0x10000 when
\* g > 0 and 0x600000 - 0x400000 + 0x1000 + 0x10000 when g = 0, for g = 8 x
\* number of globals, and the mapped range holds every global slot.
C4_MemSize ==
  ElfWritten =>
    /\ MemSize = GLOBAL_BASE - ELF_BASE
                   + (IF c.codegen.global_data_pos > 0 THEN c.codegen.global_data_pos
                      ELSE 4096)
                   + 65536
    /\ GlobalsMapped

\* a written executable of a program with globals filling less than a page
C4_Witness ==
  /\ ElfWritten
  /\ c.codegen.global_var_count >= 2
  /\ c.codegen.global_data_pos < 4096

\* the compilation has run to the end of compile()
Compiled == phase \in {"compiled", "done", "done-raw"}

\* C5: the empty source compiles to exactly the main prologue, sub rsp,512 and
\* mov rax,60; mov rdi,0; syscall, with no labels, fixups, variables or
\* functions; the written executable carries that code at its entry point.
C5_EmptySource ==
  (inp.kind = "source" /\ inp.frags = <<>> /\ Compiled) =>
    /\ c.codegen.code = MainPrologue \o ExitZero
    /\ c.codegen.code_pos = Len(MainPrologue) + Len(ExitZero)
    /\ c.codegen.label_count = 0
    /\ c.codegen.fixup_count = 0
    /\ c.codegen.var_count = 0
    /\ c.codegen.func_count = 0
    /\ ElfWritten => SubSeq(elf.bytes, 121, Len(elf.bytes)) = MainPrologue \o ExitZero

\* the executable written for the empty source
C5_Witness == inp.kind = "source" /\ inp.frags = <<>> /\ ElfWritten

\* table indices of the locals of the body being compiled
BodyLocals ==
  { i \in (c.saved_var_count + 1)..c.codegen.var_count :
      ~c.codegen.vars[i].is_param /\ ~c.codegen.vars[i].is_global }

\* C9: while a function body is compiled, every local created by add_var has a
\* strictly negative frame offset that is a multiple of 8, no two locals in
\* the table share an offset, and the first local of each body is at -8.
C9_LocalOffsets ==
  phase = "body" =>
    /\ \A i \in BodyLocals :
         /\ c.codegen.vars[i].stack_offset < 0
         /\ c.codegen.vars[i].stack_offset % 8 = 0
         /\ \A j \in BodyLocals : i # j =>
              c.codegen.vars[i].stack_offset # c.codegen.vars[j].stack_offset
    /\ BodyLocals # {} => c.codegen.vars[SetMin(BodyLocals)].stack_offset = -8

\* the second function body of a source, with two locals and a parameter
C9_Witness ==
  /\ phase = "body"
  /\ c.fn_i >= 1
  /\ Cardinality(BodyLocals) >= 2
  /\ \E i \in 1..c.codegen.var_count : c.codegen.vars[i].is_param
  /\ \E i \in 1..c.codegen.var_count : c.codegen.vars[i].is_global

(***************************************************************************)
(* SpecStr: compile() run on a one-statement source holding a string       *)
(* literal: out "...", emit "..." or an assignment of a string primary.    *)
(***************************************************************************)
\* bound: number of pieces (characters or escapes) in a short literal
MaxPieces == 2

\* bound: length of the long literal
LongLen == 127

\* the source text of a piece of a literal
PieceText(k) ==
  CASE k = 1 -> <<97>> (* a *)
    [] k = 2 -> <<92, 110>> (* \n *)
    [] k = 3 -> <<92, 116>> (* \t *)
    [] k = 4 -> <<92, 114>> (* \r *)
    [] k = 5 -> <<92, 48>> (* \0 *)
    [] k = 6 -> <<92, 120, 52, 49>> (* \x41 *)
    [] k = 7 -> <<92, 120, 48, 48>> (* \x00 *)
    [] k = 8 -> <<92, 120, 48, 49>> (* \x01 *)

\* the byte a piece stands for once its escape is resolved
PieceValue(k) ==
  CASE k = 1 -> 97
    [] k = 2 -> 10
    [] k = 3 -> 9
    [] k = 4 -> 13
    [] k = 5 -> 0
    [] k = 6 -> 65
    [] k = 7 -> 0
    [] k = 8 -> 1

PieceIds == 1..8

RECURSIVE PiecesText(_)
PiecesText(ps) == IF ps = <<>> THEN <<>> ELSE PieceText(Head(ps)) \o PiecesText(Tail(ps))

\* a literal: its source text between the quotes and its resolved bytes
ShortLiterals ==
  { [text |-> PiecesText(ps), value |-> [i \in 1..Len(ps) |-> PieceValue(ps[i])]] :
      ps \in UNION { [1..n -> PieceIds] : n \in 0..MaxPieces } }

LongLiteral == [text |-> [i \in 1..LongLen |-> 97], value |-> [i \in 1..LongLen |-> 97]]

\* the text before the opening quote: out ", emit ", s = "
FormText(form) ==
  CASE form = "out" -> <<111, 117, 116, 32, 34>>
    [] form = "emit" -> <<101, 109, 105, 116, 32, 34>>
    [] form = "primary" -> <<115, 32, 61, 32, 34>>

StringSource(form, lit) == FormText(form) \o lit.text \o <<34, 10>>

\* the order in which the two advance(c) of the \xHH initializer are evaluated
\* is not fixed by the language: hex_lr is the order this build takes
InitStr ==
  /\ \E form \in {"out", "emit", "primary"}, lit \in ShortLiterals \cup {LongLiteral},
        lr \in BOOLEAN :
       /\ inp = [kind |-> "string", form |-> form, lit |-> lit]
       /\ c = [compiler_init(StringSource(form, lit)) EXCEPT !.hex_lr = lr]
  /\ phase = "init"
  /\ elf = NoElf
  /\ m = NoMachine
  /\ proc = NoProc
  /\ ref = NoRef

NextStr ==
  \/ CompileBegin
  \/ Pass1Step
  \/ Pass1End
  \/ Pass2Step
  \/ Pass2End
  \/ Pass3End

SpecStr == InitStr /\ [][NextStr]_vars

\* the bytes the statement of the source compiled to: the code between the
\* main prologue and the final exit(0)
StmtCode ==
  SubSeq(c.codegen.code, Len(MainPrologue) + 1, c.codegen.code_pos - Len(ExitZero))

\* out / emit: the bytes the near jmp skips, and the length loaded into rdx
WriteInlined ==
  IF StmtCode = <<>> THEN <<>>
  ELSE SubSeq(StmtCode, 6, 5 + rd_s32(SubSeq(StmtCode, 2, 5)))

WriteLength ==
  IF StmtCode = <<>> THEN 0
  ELSE rd_s64(SubSeq(StmtCode, Len(StmtCode) - 9, Len(StmtCode) - 2))

\* bytes of the store to the global s that ends the assignment
StoreLen == Len(gen_mov_abs_rax(codegen_init, GLOBAL_BASE).code)

\* bytes of lea rax, [rip + disp32]
LeaLen == Len(string_lea(codegen_init, 0).code)

\* string primary: offset in StmtCode of the lea after the inlined bytes
LeaOffset == Len(StmtCode) - StoreLen - LeaLen

\* string primary: the inlined bytes between the short jmp and the
\* terminating zero before the lea
PrimaryInlined == SubSeq(StmtCode, 3, LeaOffset - 1)

StringCompiled == phase = "compiled" /\ inp.kind = "string"

\* C6: for every string literal given to out, emit or used as an expression
\* primary, the bytes inlined into the code buffer, and for out / emit the
\* length passed to write, are those of the source string with its escapes
\* \n \t \r \0 \xHH resolved, zero bytes included.
C6_StringRoundTrip ==
  StringCompiled =>
    IF inp.form = "primary" THEN PrimaryInlined = inp.lit.value
    ELSE WriteInlined = inp.lit.value /\ WriteLength = Len(inp.lit.value)

\* C7: for every string literal used as an expression primary the short jmp
\* before the inlined bytes lands exactly on the lea that follows them, and
\* that lea computes the address of the first inlined byte.
C7_JumpOverString ==
  (StringCompiled /\ inp.form = "primary") =>
    /\ StmtCode[1] = 235
    /\ 2 + S8(StmtCode[2]) = LeaOffset
    /\ SubSeq(StmtCode, LeaOffset + 1, LeaOffset + 3) = <<72, 141, 5>>
    /\ LeaOffset + LeaLen + rd_s32(SubSeq(StmtCode, LeaOffset + 4, LeaOffset + 7)) = 2

(***************************************************************************)
(* SpecCall: compile() run on a function f of n parameters that returns    *)
(* one of them, and a call r = f(e0, ..., e(n-1)); the emitted code is     *)
(* then executed.  The machine state m holds the registers the emitted     *)
(* instructions use and the memory they write.                             *)
(***************************************************************************)
\* bound: the first argument value; argument i has the value base + i
MaxBase == 2

\* initial stack pointer of the executed program
StackTop == 1048576

\* the value the body of a function without parameters returns
NoParamResult == 7

\* name of the i-th (0-based) parameter: a, b, c, ...
ParamName(i) == <<97 + i>>

\* " a b c" : the parameter list of n names
ParamsText(n) == [j \in 1..(2 * n) |-> IF j % 2 = 1 THEN 32 ELSE 97 + (j \div 2 - 1)]

\* "e_i, ..., e_(n-1)" : the argument list from argument i on
RECURSIVE ArgsText(_, _, _)
ArgsText(i, n, base) ==
  IF i >= n THEN <<>>
  ELSE Dec(base + i) \o (IF i + 1 < n THEN <<44, 32>> ELSE <<>>) \o ArgsText(i + 1, n, base)

\* "fn f a b c { -> b }\n" then "r = f(1, 2, 3)\n"
CallSource(n, k, base) ==
  <<102, 110, 32, 102>> \o ParamsText(n) \o <<32, 123, 32, 45, 62, 32>>
    \o (IF n = 0 THEN Dec(NoParamResult) ELSE ParamName(k)) \o <<32, 125, 10>>
    \o <<114, 32, 61, 32, 102, 40>> \o ArgsText(0, n, base) \o <<41, 10>>

InitCall ==
  /\ \E n \in 0..MAX_PARAMS, base \in 1..MaxBase :
       \E k \in 0..Max(n - 1, 0) :
         /\ inp = [kind |-> "call", n |-> n, k |-> k, base |-> base]
         /\ c = compiler_init(CallSource(n, k, base))
  /\ phase = "init"
  /\ elf = NoElf
  /\ m = NoMachine
  /\ proc = NoProc
  /\ ref = NoRef

\* ---- the instructions the code generator emits, executed ----
byte_at(code, p) == IF p >= 0 /\ p < Len(code) THEN code[p + 1] ELSE 0
imm32_at(code, p) == rd_s32(SubSeq(code, p + 1, p + 4))
imm64_at(code, p) == rd_s64(SubSeq(code, p + 1, p + 8))

mem_get(mem, a) == IF a \in DOMAIN mem THEN mem[a] ELSE 0
mem_put(mem, a, v) == [x \in DOMAIN mem \cup {a} |-> IF x = a THEN v ELSE mem[x]]

\* the machine at the entry point: rip is an offset into the code buffer
machine_start ==
  [ on |-> TRUE, halted |-> FALSE, fault |-> FALSE, status |-> 0,
    rip |-> 0, rsp |-> StackTop, rbp |-> 0, rax |-> 0, rbx |-> 0, rdi |-> 0,
    rcx |-> 0, rdx |-> 0,
    \* the operands of the last cmp: the flags are those of cmp_l - cmp_r
    cmp_l |-> 0, cmp_r |-> 0,
    mem |-> [a \in {} |-> 0] ]

x86_push(mm, v, len) ==
  [mm EXCEPT !.rsp = @ - 8, !.mem = mem_put(@, mm.rsp - 8, v), !.rip = @ + len]

x86_fault(mm) == [mm EXCEPT !.halted = TRUE, !.fault = TRUE]

\* syscall: exit(rdi) when rax = 60
x86_syscall(mm) ==
  IF mm.rax = 60 THEN [mm EXCEPT !.halted = TRUE, !.status = mm.rdi] ELSE x86_fault(mm)

\* signed division truncating toward zero, as idiv computes it
idiv_quot(a, b) ==
  IF (a < 0) = (b < 0) THEN (IF a < 0 THEN 0 - a ELSE a) \div (IF b < 0 THEN 0 - b ELSE b)
  ELSE 0 - ((IF a < 0 THEN 0 - a ELSE a) \div (IF b < 0 THEN 0 - b ELSE b))

\* cqo; idiv rbx: rdx:rax / rbx, a divide error when rbx is 0
x86_idiv(mm) ==
  IF mm.rbx = 0 \/ mm.rdx # (IF mm.rax < 0 THEN -1 ELSE 0) THEN x86_fault(mm)
  ELSE [mm EXCEPT !.rax = idiv_quot(mm.rax, mm.rbx),
                  !.rdx = mm.rax - mm.rbx * idiv_quot(mm.rax, mm.rbx),
                  !.rip = @ + 3]

\* the condition of setcc / jcc with the low opcode nibble cc, on the flags of
\* the last cmp
x86_cond(mm, cc) ==
  CASE cc = 4 -> mm.cmp_l = mm.cmp_r
    [] cc = 5 -> mm.cmp_l # mm.cmp_r
    [] cc = 12 -> mm.cmp_l < mm.cmp_r
    [] cc = 13 -> mm.cmp_l >= mm.cmp_r
    [] cc = 14 -> mm.cmp_l <= mm.cmp_r
    [] cc = 15 -> mm.cmp_l > mm.cmp_r
    [] OTHER -> FALSE

\* two-byte opcodes 0x0f ..: syscall, and setcc al (0x0f 0x9c 0xc0); al is the
\* low byte of rax
x86_0f(mm, code, b1) ==
  IF b1 = 5 THEN x86_syscall(mm)
  ELSE IF b1 \in {148, 149, 156, 157, 158, 159} /\ byte_at(code, mm.rip + 2) = 192
  THEN [mm EXCEPT !.rax = (@ - (@ % 256)) + (IF x86_cond(mm, b1 % 16) THEN 1 ELSE 0),
                  !.rip = @ + 3]
  ELSE x86_fault(mm)

\* instructions with the REX.W prefix 0x48; b1, b2 are the bytes after it
x86_rex(mm, code, b1, b2) ==
  CASE b1 = 137 /\ b2 = 229 -> [mm EXCEPT !.rbp = mm.rsp, !.rip = @ + 3]
    [] b1 = 1 /\ b2 = 216 -> [mm EXCEPT !.rax = @ + mm.rbx, !.rip = @ + 3]
    [] b1 = 137 /\ b2 = 193 -> [mm EXCEPT !.rcx = mm.rax, !.rip = @ + 3]
    [] b1 = 137 /\ b2 = 216 -> [mm EXCEPT !.rax = mm.rbx, !.rip = @ + 3]
    [] b1 = 137 /\ b2 = 195 -> [mm EXCEPT !.rbx = mm.rax, !.rip = @ + 3]
    [] b1 = 41 /\ b2 = 200 -> [mm EXCEPT !.rax = @ - mm.rcx, !.rip = @ + 3]
    [] b1 = 15 /\ b2 = 175 /\ byte_at(code, mm.rip + 3) = 195 ->
         [mm EXCEPT !.rax = @ * mm.rbx, !.rip = @ + 4]
    [] b1 = 15 /\ b2 = 182 /\ byte_at(code, mm.rip + 3) = 192 ->
         [mm EXCEPT !.rax = @ % 256, !.rip = @ + 4]
    [] b1 = 153 -> [mm EXCEPT !.rdx = IF mm.rax < 0 THEN -1 ELSE 0, !.rip = @ + 2]
    [] b1 = 247 /\ b2 = 251 -> x86_idiv(mm)
    [] b1 = 57 /\ b2 = 195 -> [mm EXCEPT !.cmp_l = mm.rbx, !.cmp_r = mm.rax, !.rip = @ + 3]
    [] b1 = 137 /\ b2 = 236 -> [mm EXCEPT !.rsp = mm.rbp, !.rip = @ + 3]
    [] b1 = 129 /\ b2 = 236 -> [mm EXCEPT !.rsp = @ - imm32_at(code, mm.rip + 3), !.rip = @ + 7]
    [] b1 = 129 /\ b2 = 196 -> [mm EXCEPT !.rsp = @ + imm32_at(code, mm.rip + 3), !.rip = @ + 7]
    [] b1 = 184 -> [mm EXCEPT !.rax = imm64_at(code, mm.rip + 2), !.rip = @ + 10]
    [] b1 = 187 -> [mm EXCEPT !.rbx = imm64_at(code, mm.rip + 2), !.rip = @ + 10]
    [] b1 = 191 -> [mm EXCEPT !.rdi = imm64_at(code, mm.rip + 2), !.rip = @ + 10]
    [] b1 = 139 /\ b2 = 133 ->
         [mm EXCEPT !.rax = mem_get(mm.mem, mm.rbp + imm32_at(code, mm.rip + 3)), !.rip = @ + 7]
    [] b1 = 137 /\ b2 = 133 ->
         [mm EXCEPT !.mem = mem_put(@, mm.rbp + imm32_at(code, mm.rip + 3), mm.rax), !.rip = @ + 7]
    [] b1 = 137 /\ b2 = 3 -> [mm EXCEPT !.mem = mem_put(@, mm.rbx, mm.rax), !.rip = @ + 3]
    [] OTHER -> x86_fault(mm)

\* one instruction at rip; op is its first byte
x86_op(mm, code, op) ==
  CASE op = 85 -> x86_push(mm, mm.rbp, 1)
    [] op = 80 -> x86_push(mm, mm.rax, 1)
    [] op = 93 -> [mm EXCEPT !.rbp = mem_get(mm.mem, mm.rsp), !.rsp = @ + 8, !.rip = @ + 1]
    [] op = 88 -> [mm EXCEPT !.rax = mem_get(mm.mem, mm.rsp), !.rsp = @ + 8, !.rip = @ + 1]
    [] op = 91 -> [mm EXCEPT !.rbx = mem_get(mm.mem, mm.rsp), !.rsp = @ + 8, !.rip = @ + 1]
    [] op = 232 -> [x86_push(mm, mm.rip + 5, 5) EXCEPT !.rip = @ + imm32_at(code, mm.rip + 1)]
    [] op = 195 -> [mm EXCEPT !.rip = mem_get(mm.mem, mm.rsp), !.rsp = @ + 8]
    [] op = 15 -> x86_0f(mm, code, byte_at(code, mm.rip + 1))
    [] op = 72 -> x86_rex(mm, code, byte_at(code, mm.rip + 1), byte_at(code, mm.rip + 2))
    [] OTHER -> x86_fault(mm)

x86_step(mm, code) == x86_op(mm, code, byte_at(code, mm.rip))

\* the loader maps the image and jumps to the entry point, code offset 0
Load ==
  /\ phase = "compiled" /\ inp.kind \in {"call", "expr"}
  /\ m' = machine_start
  /\ phase' = "running"
  /\ UNCHANGED <<c, elf, inp, ref, proc>>

\* the processor executes one instruction
Step ==
  /\ phase = "running" /\ ~m.halted
  /\ m' = x86_step(m, Take(c.codegen.code, c.codegen.code_pos))
  /\ UNCHANGED <<c, phase, elf, inp, ref, proc>>

NextCall ==
  \/ CompileBegin
  \/ Pass1Step
  \/ Pass1End
  \/ Pass2Step
  \/ Pass2End
  \/ FunctionBegin
  \/ BodyStep
  \/ FunctionEnd
  \/ Pass3End
  \/ Load
  \/ Step

SpecCall == InitCall /\ [][NextCall]_vars

\* value of the i-th (0-based) argument of the call
ArgValue(i) == inp.base + i

\* mov rax, e_i; push rax for the arguments from i on
RECURSIVE ArgPushes(_)
ArgPushes(i) ==
  IF i >= inp.n THEN <<>>
  ELSE <<72, 184>> \o le64(ArgValue(i)) \o <<80>> \o ArgPushes(i + 1)

\* code offset of the call instruction, after the main prologue and the pushes
CallOffset == Len(MainPrologue) + 11 * inp.n

\* code offset of the instruction after the call and its stack cleanup
AfterCall == CallOffset + 5 + (IF inp.n > 0 THEN 7 ELSE 0)

\* code offset of f: the first label named f
FnOffset == c.codegen.labels[SetMin(LabelsNamed(c.codegen, <<102>>))].pos

\* bytes of a function prologue with its sub rsp
FnPrologueLen == Len(gen_sub_rsp(gen_prologue(codegen_init), 256).code)

CallCompiled == inp.kind = "call" /\ phase \in {"compiled", "running"}

\* C10: the call f(e0, ..., e(n-1)) compiles to the arguments pushed in source
\* order, a call with a fixup named f, and add rsp, 8 x n; executed, the stack
\* pointer after the cleanup is the one before the pushes, at the first
\* instruction of f's body the slot [rbp + 16 + (n-1-i)*8] holds e_i for every
\* i, and the body's read of parameter k returns e_k, for n from 0 to 16.
C10_CallConvention ==
  /\ CallCompiled =>
       /\ SubSeq(c.codegen.code, Len(MainPrologue) + 1, CallOffset) = ArgPushes(0)
       /\ c.codegen.code[CallOffset + 1] = 232
       /\ \E j \in 1..c.codegen.fixup_count :
            /\ c.codegen.fixups[j].label = <<102>>
            /\ c.codegen.fixups[j].pos = CallOffset + 1
       /\ inp.n > 0 =>
            SubSeq(c.codegen.code, CallOffset + 6, CallOffset + 12)
              = <<72, 129, 196>> \o le32(8 * inp.n)
  /\ (CallCompiled /\ m.on /\ ~m.halted /\ m.rip = FnOffset + FnPrologueLen) =>
       \A i \in 0..(inp.n - 1) :
         mem_get(m.mem, m.rbp + 16 + (inp.n - 1 - i) * 8) = ArgValue(i)
  /\ (CallCompiled /\ m.on /\ m.rip = AfterCall) =>
       /\ m.rsp = StackTop - 8 - 512
       /\ m.rax = IF inp.n = 0 THEN NoParamResult ELSE ArgValue(inp.k)
  /\ (CallCompiled /\ m.on /\ m.halted) => ~m.fault /\ m.status = 0

\* the body of a function of 16 parameters entered with all arguments pushed
C10_Witness ==
  /\ CallCompiled /\ m.on /\ ~m.halted
  /\ inp.n = MAX_PARAMS /\ inp.k = 3
  /\ m.rip = FnOffset + FnPrologueLen
  /\ c.codegen.funcs[1].param_count = inp.n

(***************************************************************************)
(* SpecExpr: compile() run on an assignment r = a op b or r = a op1 b op2 c *)
(* of number literals, and the emitted code then executed.  The operand    *)
(* values are small, so no 64-bit operation of the run wraps around.       *)
(***************************************************************************)
\* bound: the operands of a single operator range over -MaxOperand..MaxOperand
MaxOperand == 3

BinOps == {"add", "sub", "mul", "div", "eq", "ne", "lt", "le", "gt", "ge"}

\* the operands of a chain of two operators
ChainOperands == { <<10, 3, 2>>, <<8, 4, 2>>, <<2, 3, 4>>, <<1, 1, 0>> }

\* the source text of an operator
OpText(op) ==
  CASE op = "add" -> <<43>> (* + *)
    [] op = "sub" -> <<45>> (* - *)
    [] op = "mul" -> <<42>> (* * *)
    [] op = "div" -> <<47>> (* / *)
    [] op = "eq" -> <<61, 61>> (* == *)
    [] op = "ne" -> <<33, 61>> (* != *)
    [] op = "lt" -> <<60>> (* < *)
    [] op = "le" -> <<60, 61>> (* <= *)
    [] op = "gt" -> <<62>> (* > *)
    [] op = "ge" -> <<62, 61>> (* >= *)

\* a number literal, negative ones with a leading '-'
NumText(v) == IF v < 0 THEN <<45>> \o Dec(0 - v) ELSE Dec(v)

\* " op v" for the operators and operands from index i on
RECURSIVE ChainText(_, _, _)
ChainText(ops, vals, i) ==
  IF i > Len(ops) THEN <<>>
  ELSE <<32>> \o OpText(ops[i]) \o <<32>> \o NumText(vals[i + 1]) \o ChainText(ops, vals, i + 1)

\* "r = a op1 b op2 c\n"
ExprSource(ops, vals) ==
  <<114, 32, 61, 32>> \o NumText(vals[1]) \o ChainText(ops, vals, 1) \o <<10>>

InitExpr ==
  /\ \/ \E op \in BinOps, a \in (0 - MaxOperand)..MaxOperand, b \in (0 - MaxOperand)..MaxOperand :
          /\ inp = [kind |-> "expr", ops |-> <<op>>, vals |-> <<a, b>>]
          /\ c = compiler_init(ExprSource(<<op>>, <<a, b>>))
     \/ \E op1 \in BinOps, op2 \in BinOps, t \in ChainOperands :
          /\ inp = [kind |-> "expr", ops |-> <<op1, op2>>, vals |-> t]
          /\ c = compiler_init(ExprSource(<<op1, op2>>, t))
  /\ phase = "init"
  /\ elf = NoElf
  /\ m = NoMachine
  /\ proc = NoProc
  /\ ref = NoRef

NextExpr ==
  \/ CompileBegin
  \/ Pass1Step
  \/ Pass1End
  \/ Pass2Step
  \/ Pass2End
  \/ Pass3End
  \/ Load
  \/ Step

SpecExpr == InitExpr /\ [][NextExpr]_vars

\* the value of a op b; a division by zero has none (the result is not used)
OpValue(op, a, b) ==
  CASE op = "add" -> a + b
    [] op = "sub" -> a - b
    [] op = "mul" -> a * b
    [] op = "div" -> IF b = 0 THEN 0 ELSE idiv_quot(a, b)
    [] op = "eq" -> IF a = b THEN 1 ELSE 0
    [] op = "ne" -> IF a # b THEN 1 ELSE 0
    [] op = "lt" -> IF a < b THEN 1 ELSE 0
    [] op = "le" -> IF a <= b THEN 1 ELSE 0
    [] op = "gt" -> IF a > b THEN 1 ELSE 0
    [] op = "ge" -> IF a >= b THEN 1 ELSE 0

\* the program of the expression has run to its exit
ExprRun == inp.kind = "expr" /\ phase = "running" /\ m.halted

\* code offset of the store to r that follows the expression's code
ExprStoreOffset == c.codegen.code_pos - Len(ExitZero) - StoreLen

\* the value stored to the global r, the first global
ExprResult == mem_get(m.mem, GLOBAL_BASE)

\* the left-associative reading of a op1 b op2 c
LeftValue == OpValue(inp.ops[2], OpValue(inp.ops[1], inp.vals[1], inp.vals[2]), inp.vals[3])

\* no division by zero in the left-associative reading
LeftDefined ==
  /\ ~(inp.ops[1] = "div" /\ inp.vals[2] = 0)
  /\ ~(inp.ops[2] = "div" /\ inp.vals[3] = 0)

\* C11: the code emitted for a op1 b op2 c computes (a op1 b) op2 c: binary
\* operators form a left-associative chain, so 10 - 3 - 2 gives 5 and
\* 8 / 4 / 2 gives 1.
C11_LeftAssociative ==
  (ExprRun /\ Len(inp.ops) = 2 /\ LeftDefined) =>
    ~m.fault /\ ExprResult = LeftValue

(***************************************************************************)
(* SpecLoop: compile() run on one statement of nested loops with a break:  *)
(* n loops are opened, the n - j innermost are closed again, then comes    *)
(* the break, enclosed by the j outermost loops.  The recursion            *)
(* compile_statement -> compile_loop -> compile_block -> compile_statement *)
(* is followed one call at a time: ref.frames holds the loop ids of the    *)
(* compile_loop calls that have not returned yet.                          *)
(***************************************************************************)
\* bound: number of nested loops
MaxNest == 17

RECURSIVE Repeat(_, _)
Repeat(text, n) == IF n = 0 THEN <<>> ELSE text \o Repeat(text, n - 1)

\* "loop { " n times, "} " n - j times, "break ", "} " j times
LoopSource(n, j) ==
  Repeat(<<108, 111, 111, 112, 32, 123, 32>>, n) \o Repeat(<<125, 32>>, n - j)
    \o <<98, 114, 101, 97, 107, 32>> \o Repeat(<<125, 32>>, j) \o <<10>>

InitLoop ==
  /\ \E n \in 0..MaxNest : \E j \in 0..n :
       /\ inp = [kind |-> "loop", n |-> n, j |-> j]
       /\ c = compiler_init(LoopSource(n, j))
  /\ phase = "init"
  /\ elf = NoElf
  /\ m = NoMachine
  /\ proc = NoProc
  /\ ref = [kept |-> FALSE, frames |-> <<>>]

\* compile_loop up to its block: the id taken, the loop stack pushed, the
\* start label added, the white space skipped
loop_open(cc, id) ==
  skip_whitespace(
    [push_loop([cc EXCEPT !.codegen.loop_id = @ + 1],
               loop_start_label(id), loop_end_label(id))
       EXCEPT !.codegen = add_label(@, loop_start_label(id))])

\* whether the statement at the cursor is a loop
at_loop(cc) == cc.pos < cc.len /\ match(cc, <<108, 111, 111, 112>> (* "loop" *))

\* whether the statement loop the compiler is in goes on to compile_statement:
\* that of compile() at the top level, that of compile_block inside a loop
loop_goes_on(cc, frames) ==
  /\ cc.pos < cc.len
  /\ frames # <<>> => peek(skip_whitespace(cc)) # 125

\* compile_statement called on a loop: compile_loop runs up to its block,
\* and compile_block up to its statement loop
LoopEnter ==
  /\ phase = "pass2" /\ inp.kind = "loop" /\ ~c.hang
  /\ loop_goes_on(c, ref.frames) /\ at_loop(skip_whitespace(c))
  /\ IF peek(loop_open(skip_whitespace(Skip(skip_whitespace(c), 4)), c.codegen.loop_id)) = 123
     THEN /\ c' = skip_ws_opt(loop_open(skip_whitespace(Skip(skip_whitespace(c), 4)),
                                        c.codegen.loop_id), 123)
          /\ ref' = [ref EXCEPT !.frames = Append(@, c.codegen.loop_id)]
     ELSE /\ c' = loop_end(loop_open(skip_whitespace(Skip(skip_whitespace(c), 4)),
                                     c.codegen.loop_id), c.codegen.loop_id)
          /\ ref' = ref
  /\ UNCHANGED <<phase, elf, m, inp, proc>>

\* compile_statement called on anything but a loop
LoopStatement ==
  /\ phase = "pass2" /\ inp.kind = "loop" /\ ~c.hang
  /\ loop_goes_on(c, ref.frames) /\ ~at_loop(skip_whitespace(c))
  /\ c' = compile_statement(c)
  /\ UNCHANGED <<phase, elf, m, inp, ref, proc>>

\* the statement loop of the innermost compile_block ends, at its '}' or at
\* the end of the source, and its compile_loop runs to its return
LoopBlockClose ==
  /\ phase = "pass2" /\ inp.kind = "loop" /\ ~c.hang
  /\ ref.frames # <<>> /\ ~loop_goes_on(c, ref.frames)
  /\ c' = loop_end(IF c.pos < c.len THEN advance(skip_whitespace(c)) ELSE c,
                   ref.frames[Len(ref.frames)])
  /\ ref' = [ref EXCEPT !.frames = SubSeq(@, 1, Len(@) - 1)]
  /\ UNCHANGED <<phase, elf, m, inp, proc>>

NextLoop ==
  \/ CompileBegin
  \/ Pass1Step
  \/ Pass1End
  \/ LoopEnter
  \/ LoopStatement
  \/ LoopBlockClose
  \/ Pass2End
  \/ Pass3End

SpecLoop == InitLoop /\ [][NextLoop]_vars

LoopCompiled == inp.kind = "loop" /\ phase = "compiled"

\* the fixups that name an end label of a loop: those of the breaks
BreakFixups ==
  { i \in 1..c.codegen.fixup_count :
      Take(c.codegen.fixups[i].label, 10) = Take(loop_end_label(0), 10) }

\* the code offset a resolved jump lands on, i being the index of its fixup
JumpTarget(i) ==
  c.codegen.fixups[i].pos + 4 + rd_s32(CodeAt4(c.codegen, c.codegen.fixups[i].pos))

\* the code offset just after the back-jump of the loop with the given id
AfterBackJump(id) ==
  c.codegen.fixups[SetMin({ i \in 1..c.codegen.fixup_count :
                              c.codegen.fixups[i].label = loop_start_label(id) })].pos + 4

\* C12: a break enclosed by j >= 1 loops emits one jump whose fixup names the
\* end label of the innermost of them (the j-th loop opened, id j - 1), at
\* every nesting depth and also after inner loops have been closed; after
\* resolve_fixups the jump lands just after that loop's back-jump; outside
\* any loop break emits nothing.
C12_BreakInnermost ==
  LoopCompiled =>
    IF inp.j = 0 THEN BreakFixups = {}
    ELSE /\ BreakFixups = {inp.n - inp.j + 1}
         /\ c.codegen.fixups[inp.n - inp.j + 1].label = loop_end_label(inp.j - 1)
         /\ c.codegen.code[c.codegen.fixups[inp.n - inp.j + 1].pos] = 233
         /\ JumpTarget(inp.n - inp.j + 1) = AfterBackJump(inp.j - 1)

(***************************************************************************)
(* SpecFn: compile() run on sources with function definitions in the       *)
(* places a source can have them: at the start of a line, after another    *)
(* statement on the same line, on a line of a skipped block declaration,   *)
(* and on a line of a when block.                                          *)
(***************************************************************************)
\* bound: number of fragments in a source text with function definitions
MaxFnFrags == 2

FnFragment(k) ==
  CASE k = 1 -> <<102, 110, 32, 102, 32, 97, 32, 123, 32, 45, 62, 32, 97, 32, 125, 10>> (* "fn f a { -> a }\n" *)
    [] k = 2 -> <<102, 110, 32, 103, 32, 123, 32, 119, 32, 61, 32, 49, 32, 125, 10>> (* "fn g { w = 1 }\n" *)
    [] k = 3 -> <<120, 32, 61, 32, 49, 32, 102, 110, 32, 107, 32, 123, 32, 118, 32, 61, 32, 50, 32, 125, 10>> (* "x = 1 fn k { v = 2 }\n" *)
    [] k = 4 -> <<112, 111, 111, 108, 32, 112, 32, 123, 10, 102, 110, 32, 113, 32, 123, 32, 117, 32, 61, 32, 51, 32, 125, 10, 125, 10>> (* "pool p {\nfn q { u = 3 }\n}\n" *)
    [] k = 5 -> <<121, 32, 61, 32, 102, 40, 50, 41, 10>> (* "y = f(2)\n" *)
    [] k = 6 -> <<119, 104, 101, 110, 32, 121, 32, 123, 10, 102, 110, 32, 110, 32, 123, 32, 45, 62, 32, 49, 32, 125, 10, 125, 10>> (* "when y {\nfn n { -> 1 }\n}\n" *)

FnFragmentIds == 1..6

RECURSIVE FnConcat(_)
FnConcat(ks) == IF ks = <<>> THEN <<>> ELSE FnFragment(Head(ks)) \o FnConcat(Tail(ks))

InitFn ==
  /\ \E ks \in UNION { [1..n -> FnFragmentIds] : n \in 0..MaxFnFrags } :
       /\ inp = [kind |-> "fn", frags |-> ks]
       /\ c = compiler_init(FnConcat(ks))
  /\ phase = "init"
  /\ elf = NoElf
  /\ m = NoMachine
  /\ proc = NoProc
  /\ ref = NoRef

NextFn ==
  \/ CompileBegin
  \/ Pass1Step
  \/ Pass1End
  \/ Pass2Step
  \/ Pass2End
  \/ FunctionBegin
  \/ BodyStep
  \/ FunctionEnd
  \/ Pass3End

SpecFn == InitFn /\ [][NextFn]_vars

\* the first n entries of the function table: name, parameters, body range
FnTable(cg, n) ==
  [ i \in 1..n |-> [ name |-> cg.funcs[i].name, params |-> cg.funcs[i].params,
                     body_pos |-> cg.funcs[i].body_pos, body_end |-> cg.funcs[i].body_end ] ]

\* the first pass run to its end
RECURSIVE pass1_all(_)
pass1_all(cc) == IF ~cc.hang /\ cc.pos < cc.len THEN pass1_all(pass1_step(cc)) ELSE cc

\* the table the first pass collects from the source of this run
Pass1Table ==
  FnTable(pass1_all(compile_begin(compiler_init(FnConcat(inp.frags)))).codegen,
          c.saved_func_count)

\* the names of the labels that are function labels, in table order
RECURSIVE FnLabelsFrom(_, _)
FnLabelsFrom(cg, j) ==
  IF j > cg.label_count THEN <<>>
  ELSE (IF cg.labels[j].name[1] = 95 THEN <<>> ELSE <<cg.labels[j].name>>)
         \o FnLabelsFrom(cg, j + 1)

\* the names of the entries of a function table that have a body
RECURSIVE BodyNames(_, _)
BodyNames(t, i) ==
  IF i > Len(t) THEN <<>>
  ELSE (IF t[i].body_pos > 0 /\ t[i].body_end > t[i].body_pos THEN <<t[i].name>> ELSE <<>>)
         \o BodyNames(t, i + 1)

\* C13: the function table the third pass uses (count, and per index the
\* name, parameter list and body range) is the table the first pass
\* collected, and every function the first pass found has its own body
\* emitted exactly once.
C13_FnIdempotent ==
  /\ (inp.kind = "fn" /\ phase = "pass3" /\ c.fn_i = 0) =>
       FnTable(c.codegen, c.codegen.func_count) = Pass1Table
  /\ (inp.kind = "fn" /\ phase = "compiled") =>
       FnLabelsFrom(c.codegen, 1) = BodyNames(Pass1Table, 1)

\* the second pass run to its end
RECURSIVE pass2_all(_)
pass2_all(cc) == IF ~cc.hang /\ cc.pos < cc.len THEN pass2_all(compile_statement(cc)) ELSE cc

\* the compiler of this run's source after the second pass and its exit(0)
MainCompiled ==
  pass2_end(pass2_all(pass1_end(pass1_all(compile_begin(compiler_init(FnConcat(inp.frags)))))))

\* the code offset just after the exit(0) of the main program
MainEnd == MainCompiled.codegen.code_pos

\* whether the statement at the cursor is a function definition
at_fn(cc) == match(skip_whitespace(cc), <<102, 110, 32>> (* "fn " *))

\* what a step emits into: code bytes, labels, fixups
Emitted(cg) ==
  <<Take(cg.code, cg.code_pos), Take(cg.labels, cg.label_count), Take(cg.fixups, cg.fixup_count)>>

\* C14: the first pass and the fn handler emit no bytes and add no labels or
\* fixups; the main program's code is emitted in the second pass and ends
\* with the exit(0) sequence; every label added after it, every function
\* label and every byte of every function body lie at or after the end of
\* that sequence.
C14_EmissionOrder ==
  /\ (inp.kind = "fn" /\ phase = "pass1") =>
       Emitted(c.codegen) = <<MainPrologue, <<>>, <<>>>>
  /\ (inp.kind = "fn" /\ phase = "pass2" /\ c.pos < c.len /\ at_fn(c)) =>
       Emitted(compile_statement(c).codegen) = Emitted(c.codegen)
  /\ (inp.kind = "fn" /\ phase \in {"pass3", "body", "compiled"}) =>
       /\ MainEnd >= Len(MainPrologue) + Len(ExitZero)
       /\ SubSeq(c.codegen.code, MainEnd - Len(ExitZero) + 1, MainEnd) = ExitZero
       /\ c.codegen.code_pos >= MainEnd
       /\ phase # "compiled" => Take(c.codegen.code, MainEnd) = MainCompiled.codegen.code
       /\ \A j \in 1..c.codegen.label_count :
            (j > MainCompiled.codegen.label_count
               \/ \E i \in 1..c.codegen.func_count : c.codegen.funcs[i].name = c.codegen.labels[j].name)
              => c.codegen.labels[j].pos >= MainEnd
       /\ \A i \in 1..c.codegen.func_count :
            c.codegen.funcs[i].code_offset # 0 => c.codegen.funcs[i].code_offset >= MainEnd

\* a source with a function and main-program code that calls it, compiled
C14_Witness ==
  /\ inp.kind = "fn" /\ phase = "compiled" /\ inp.frags = <<1, 5>>
  /\ c.codegen.code_pos > MainEnd
  /\ FnLabelsFrom(c.codegen, 1) = << <<102>> >>
  /\ MainEnd > Len(MainPrologue) + Len(ExitZero)

(***************************************************************************)
(* main(): what the process prints and returns.                            *)
(***************************************************************************)
\* C16: when the output file cannot be opened the failure is written to
\* stderr and the process exits with status 1; a successful generation is
\* never reported with exit status 0 unless the image has been written.
C16_OutputFailure ==
  /\ (inp.kind = "source" /\ phase \in {"done", "done-raw"} /\ ~elf.written) =>
       (proc.stderr # <<>> /\ proc.status = 1)
  /\ (inp.kind = "source" /\ proc.status = 0 /\ proc.stdout # <<>>) => elf.written

(***************************************************************************)
(* SpecCap: the emit functions and the table functions driven directly on  *)
(* a generator whose buffer and tables are close to their capacities.      *)
(***************************************************************************)
\* bound: capacity of the code buffer in these runs (cg->code_cap)
CodeCap == 6
\* bound: free entries each table starts with
CapSlack == 1
\* bound: number of fixups recorded in a run that drives the code buffer
MaxCapFixups == 2

\* the i-th of the distinct names filling a table
CapName(i) == <<97 + (i % 26), 97 + ((i \div 26) % 26), 97 + (i \div 676)>>

\* the code buffer and the tables a run can drive
CapKinds == {"code", "labels", "fixups", "vars", "funcs"}

\* a generator with nl labels, nx fixups and the four bytes add_fixup emitted
\* with each, nv globals and nf functions recorded
cap_tables(cg, nl, nx, nv, nf) ==
  [cg EXCEPT
     !.labels = [i \in 1..nl |-> [name |-> CapName(i), pos |-> 0]], !.label_count = nl,
     !.fixups = [i \in 1..nx |-> [pos |-> 4 * (i - 1), label |-> CapName(i)]], !.fixup_count = nx,
     !.code = Zeros(4 * nx), !.code_pos = 4 * nx,
     !.vars = [i \in 1..nv |-> global_var([cg EXCEPT !.global_data_pos = 8 * (i - 1)], CapName(i))],
     !.var_count = nv, !.global_var_count = nv, !.global_data_pos = 8 * nv,
     !.funcs = [i \in 1..nf |-> fn_entry(CapName(i), <<>>, 0, 0)], !.func_count = nf]

\* "fn f a b { }\n", once more than the function table has room for
CapSource == Repeat(<<102, 110, 32, 102, 32, 97, 32, 98, 32, 123, 32, 125, 10>>, CapSlack + 1)

\* the number of entries table t starts with in a run that drives table k
cap_start(k, t, max) == IF k = t THEN max - CapSlack ELSE 0

\* a run drives one table, which starts CapSlack entries below its capacity,
\* or the code buffer, which starts empty and has CodeCap bytes
InitCap ==
  /\ \E k \in CapKinds :
       /\ inp = [kind |-> "cap", table |-> k]
       /\ c = [compiler_init(CapSource) EXCEPT
                 !.codegen = cap_tables([@ EXCEPT !.code_cap = IF k = "code" THEN CodeCap ELSE MAX_CODE],
                                        cap_start(k, "labels", MAX_LABELS),
                                        cap_start(k, "fixups", MAX_LABELS),
                                        cap_start(k, "vars", MAX_VARS),
                                        cap_start(k, "funcs", MAX_FUNCS))]
  /\ phase = "cap"
  /\ elf = NoElf
  /\ m = NoMachine
  /\ proc = NoProc
  /\ ref = [kept |-> FALSE, dropped |-> {}]

\* one call on the generator in a run driving table k: cg1 is its result,
\* full the buffer and tables that had no room for what the call wrote
cap_call(k, cg1, full) ==
  /\ phase = "cap" /\ inp.kind = "cap" /\ inp.table = k
  /\ c' = [c EXCEPT !.codegen = cg1]
  /\ ref' = [ref EXCEPT !.dropped = @ \cup full]
  /\ UNCHANGED <<phase, elf, m, inp, proc>>

\* {"code"} when n more bytes do not fit into the buffer
code_full(cg, n) == IF cg.code_pos + n > cg.code_cap THEN {"code"} ELSE {}

\* {t} when a table with count entries out of max has no room
table_full(t, count, max) == IF count >= max THEN {t} ELSE {}

CapEmitByte ==
  \E b \in {144, 195} : cap_call("code", emit_byte(c.codegen, b), code_full(c.codegen, 1))

CapEmitBytes ==
  cap_call("code", emit_bytes(c.codegen, <<72, 137>>), code_full(c.codegen, 2))

CapEmitU32 ==
  cap_call("code", emit_u32(c.codegen, 67305985), code_full(c.codegen, 4))

CapEmitU64 ==
  cap_call("code", emit_u64(c.codegen, GLOBAL_BASE), code_full(c.codegen, 8))

CapAddLabel ==
  cap_call("labels", add_label(c.codegen, <<76>>),
           table_full("labels", c.codegen.label_count, MAX_LABELS))

\* add_fixup records the fixup and emits its four bytes
CapAddFixup ==
  \E k \in {"code", "fixups"} :
    /\ k = "code" => c.codegen.fixup_count < MaxCapFixups
    /\ k = "fixups" => c.codegen.code_pos < 4 * (MAX_LABELS + CapSlack)
    /\ cap_call(k, add_fixup(c.codegen, <<76>>),
                 table_full("fixups", c.codegen.fixup_count, MAX_LABELS)
                   \cup code_full(c.codegen, 4))

CapAddVar ==
  cap_call("vars", add_var(c.codegen, <<86>>).cg,
           table_full("vars", c.codegen.var_count, MAX_VARS))

\* compile_statement on a function definition
CapFnDef ==
  /\ phase = "cap" /\ inp.kind = "cap" /\ inp.table \in {"funcs", "vars"}
  /\ c.pos < c.len /\ at_fn(c)
  /\ c' = compile_statement(c)
  /\ ref' = [ref EXCEPT !.dropped = @ \cup table_full("funcs", c.codegen.func_count, MAX_FUNCS)]
  /\ UNCHANGED <<phase, elf, m, inp, proc>>

\* compile_function_body called for the first function, up to its statement
\* loop: the saves and the parameter binding
CapBodyEnter ==
  /\ phase = "cap" /\ inp.kind = "cap" /\ inp.table = "vars"
  /\ c.codegen.func_count >= 1 /\ has_body(c.codegen, 1)
  /\ c' = enter_function_body(c, 1)
  /\ phase' = "cap-body"
  /\ UNCHANGED <<elf, m, inp, ref, proc>>

\* compile_function_body after its statement loop: the restores
CapBodyLeave ==
  /\ phase = "cap-body"
  /\ c' = leave_function_body(c)
  /\ phase' = "cap"
  /\ UNCHANGED <<elf, m, inp, ref, proc>>

NextCap ==
  \/ CapEmitByte
  \/ CapEmitBytes
  \/ CapEmitU32
  \/ CapEmitU64
  \/ CapAddLabel
  \/ CapAddFixup
  \/ CapAddVar
  \/ CapFnDef
  \/ CapBodyEnter
  \/ CapBodyLeave

SpecCap == InitCap /\ [][NextCap]_vars

\* C15: whenever an emit finds the code buffer full, or add_label, add_fixup,
\* add_var or compile_fn_def finds its table full, the condition is reported
\* on stderr.
C15_OverflowReported ==
  (inp.kind = "cap" /\ ref.dropped # {}) => proc.stderr # <<>>

\* C17: in every state 0 <= code_pos <= code_cap; no step decreases
\* code_pos; a step taken with code_pos = code_cap, an emit among them,
\* changes neither code_pos nor any byte of the buffer.
C17_CursorBounded ==
  /\ [](0 <= c.codegen.code_pos /\ c.codegen.code_pos <= c.codegen.code_cap
        /\ Len(c.codegen.code) <= c.codegen.code_cap)
  /\ [][/\ c'.codegen.code_pos >= c.codegen.code_pos
        /\ c.codegen.code_pos = c.codegen.code_cap =>
             (c'.codegen.code_pos = c.codegen.code_pos /\ c'.codegen.code = c.codegen.code)]_vars

\* the buffer is full and every kind of emit has been attempted since
C17_Witness ==
  /\ inp.kind = "cap" /\ inp.table = "code"
  /\ c.codegen.code_pos = c.codegen.code_cap /\ Len(c.codegen.code) = CodeCap
  /\ "code" \in ref.dropped
  /\ c.codegen.code[CodeCap] = 144

(***************************************************************************)
(* SpecUnified: a source that is one unified block with decimal values,    *)
(* compiled, written and reported by main().                               *)
(***************************************************************************)
\* the values of a block, in tenths: 0.0, 0.1, 0.5, 0.9, 1.0
UnifiedTenths == {0, 1, 5, 9, 10}

\* "0.9" for 9 tenths, "1.0" for 10
TenthText(t) == Dec(t \div 10) \o <<46, 48 + (t % 10)>>

\* "unified { i: a, e: b, r: c }\n"
UnifiedSource(a, b, d) ==
  <<117, 110, 105, 102, 105, 101, 100, 32, 123, 32, 105, 58, 32>> \o TenthText(a)
  \o <<44, 32, 101, 58, 32>> \o TenthText(b)
  \o <<44, 32, 114, 58, 32>> \o TenthText(d) \o <<32, 125, 10>>

InitUnified ==
  /\ \E a \in UnifiedTenths, b \in UnifiedTenths, d \in UnifiedTenths :
       /\ inp = [kind |-> "unified", i |-> a, e |-> b, r |-> d]
       /\ c = compiler_init(UnifiedSource(a, b, d))
  /\ phase = "init"
  /\ elf = NoElf
  /\ m = NoMachine
  /\ proc = NoProc
  /\ ref = NoRef

NextUnified ==
  \/ CompileBegin
  \/ Pass1Step
  \/ Pass1End
  \/ Pass2Step
  \/ Pass2End
  \/ Pass3End
  \/ WriteElf
  \/ WriteRaw

SpecUnified == InitUnified /\ [][NextUnified]_vars

\* the values of the Unified line of the report
ReportedUnified == proc.stdout[Len(proc.stdout)].args

\* C18: a unified block with decimal values a, b, c in [0,1] sets the
\* telemetry tuple to (a, b, c) and the report prints them to two decimals;
\* for i: 0.9, e: 0.1, r: 0.5 the report shows i=0.90 e=0.10 r=0.50.
C18_UnifiedReport ==
  (inp.kind = "unified" /\ phase \in {"done", "done-raw"}) =>
    /\ c.unified = [i |-> 100 * inp.i, e |-> 100 * inp.e, r |-> 100 * inp.r]
    /\ ReportedUnified = <<fmt_2f(100 * inp.i), fmt_2f(100 * inp.e), fmt_2f(100 * inp.r)>>
    /\ (inp.i = 9 /\ inp.e = 1 /\ inp.r = 5) =>
         ReportedUnified = << <<48, 46, 57, 48>>, <<48, 46, 49, 48>>, <<48, 46, 53, 48>> >>

(***************************************************************************)
(* SpecKeep: sources with keep statements, in the main program and in a    *)
(* function body.                                                          *)
(***************************************************************************)
\* bound: number of fragments in a source text with keep statements
MaxKeepFrags == 3

KeepFragment(k) ==
  CASE k = 1 -> <<107, 101, 101, 112, 10>> (* "keep\n" *)
    [] k = 2 -> <<120, 32, 61, 32, 49, 10>> (* "x = 1\n" *)
    [] k = 3 -> <<102, 110, 32, 119, 32, 123, 32, 107, 101, 101, 112, 32, 125, 10>> (* "fn w { keep }\n" *)
    [] k = 4 -> <<107, 101, 101, 112, 32, 107, 101, 101, 112, 10>> (* "keep keep\n" *)

KeepFragmentIds == 1..4

RECURSIVE KeepConcat(_)
KeepConcat(ks) == IF ks = <<>> THEN <<>> ELSE KeepFragment(Head(ks)) \o KeepConcat(Tail(ks))

InitKeep ==
  /\ \E ks \in UNION { [1..n -> KeepFragmentIds] : n \in 0..MaxKeepFrags } :
       /\ inp = [kind |-> "keep", frags |-> ks]
       /\ c = compiler_init(KeepConcat(ks))
  /\ phase = "init"
  /\ elf = NoElf
  /\ m = NoMachine
  /\ proc = NoProc
  /\ ref = NoRef

NextKeep ==
  \/ CompileBegin
  \/ Pass1Step
  \/ Pass1End
  \/ Pass2Step
  \/ Pass2End
  \/ FunctionBegin
  \/ BodyStep
  \/ FunctionEnd
  \/ Pass3End

SpecKeep == InitKeep /\ [][NextKeep]_vars

\* the next statement to be compiled is keep
at_keep(cc) == match(skip_whitespace(cc), <<107, 101, 101, 112>> (* "keep" *))

\* the statement loop of the main program or of a function body is about
\* to call compile_statement on a keep statement
KeepNext ==
  /\ inp.kind = "keep" /\ ~c.hang /\ at_keep(c)
  /\ \/ phase = "pass2" /\ c.pos < c.len
     \/ phase = "body" /\ c.pos < c.codegen.funcs[c.current_func].body_end

\* the bytes the next statement emits
KeepBytes == Drop(compile_statement(c).codegen.code, c.codegen.code_pos)

\* the code offset the jump emitted by the next statement goes to
KeepTarget == c.codegen.code_pos + Len(KeepBytes) + S8(KeepBytes[Len(KeepBytes)])

\* C20 as the source has it: keep emits exactly two instructions, pause
\* (f3 90) and a short jump (eb) whose 8-bit displacement is -4: the jump
\* targets the pause before it, and no label or fixup is added.
C20_KeepLoop ==
  KeepNext =>
    /\ Take(KeepBytes, 3) = <<243, 144, 235>> /\ Len(KeepBytes) = 4
    /\ S8(KeepBytes[4]) = -4
    /\ KeepTarget = c.codegen.code_pos
    /\ compile_statement(c).codegen.label_count = c.codegen.label_count
    /\ compile_statement(c).codegen.fixup_count = c.codegen.fixup_count

\* C20: keep emits exactly two instructions, pause followed by a short jump
\* whose 8-bit displacement is -2, a jump that targets itself.
C20_KeepSelfJump ==
  KeepNext =>
    /\ Take(KeepBytes, 3) = <<243, 144, 235>> /\ Len(KeepBytes) = 4
    /\ S8(KeepBytes[4]) = -2
    /\ KeepTarget = c.codegen.code_pos + 2

\* a keep statement of the main program, after an assignment, about to be
\* compiled
C20_Witness ==
  /\ KeepNext /\ inp.frags = <<2, 3, 1>>
  /\ phase = "pass2" /\ c.codegen.code_pos > Len(MainPrologue)

\* C19: for a single binary operator, a op b, the emitted code run to its
\* end leaves a + b, a - b, a * b, the signed quotient a / b (b # 0), and 1
\* or 0 for == != < <= > >= comparing the left operand with the right, for
\* all signed a, b within the bound; it is the value stored to r.
C19_BinaryOperator ==
  (ExprRun /\ Len(inp.ops) = 1 /\ ~(inp.ops[1] = "div" /\ inp.vals[2] = 0)) =>
    /\ ~m.fault
    /\ ExprResult = OpValue(inp.ops[1], inp.vals[1], inp.vals[2])

\* -2 < 1 has been compiled and run: the signed comparison of the left
\* operand with the right one stored 1
C19_Witness ==
  /\ ExprRun /\ ~m.fault
  /\ inp.ops = <<"lt">> /\ inp.vals = <<-2, 1>>
  /\ ExprResult = 1

(***************************************************************************)
(* SpecScope: globals, parameters and locals that share names, in the main *)
(* program and in two function bodies.                                     *)
(***************************************************************************)
\* bound: number of fragments in a source text with shared names
MaxScopeFrags == 3

ScopeFragment(k) ==
  CASE k = 1 -> <<97, 32, 61, 32, 53, 10>> (* "a = 5\n" *)
    [] k = 2 -> <<102, 110, 32, 102, 32, 97, 32, 123, 32, 114, 32, 61, 32, 97, 10, 32, 117, 32, 61, 32, 50, 32, 125, 10>> (* "fn f a { r = a\n u = 2 }\n" *)
    [] k = 3 -> <<102, 110, 32, 103, 32, 98, 32, 123, 32, 97, 32, 61, 32, 98, 10, 32, 117, 32, 61, 32, 97, 32, 125, 10>> (* "fn g b { a = b\n u = a }\n" *)
    [] k = 4 -> <<117, 32, 61, 32, 49, 10>> (* "u = 1\n" *)

ScopeFragmentIds == 1..4

RECURSIVE ScopeConcat(_)
ScopeConcat(ks) == IF ks = <<>> THEN <<>> ELSE ScopeFragment(Head(ks)) \o ScopeConcat(Tail(ks))

InitScope ==
  /\ \E ks \in UNION { [1..n -> ScopeFragmentIds] : n \in 0..MaxScopeFrags } :
       /\ inp = [kind |-> "scope", frags |-> ks]
       /\ c = compiler_init(ScopeConcat(ks))
  /\ phase = "init"
  /\ elf = NoElf
  /\ m = NoMachine
  /\ proc = NoProc
  /\ ref = NoRef

NextScope ==
  \/ CompileBegin
  \/ Pass1Step
  \/ Pass1End
  \/ Pass2Step
  \/ Pass2End
  \/ FunctionBegin
  \/ BodyStep
  \/ FunctionEnd
  \/ Pass3End

SpecScope == InitScope /\ [][NextScope]_vars

\* the function whose body is being compiled
CurrentFn == c.codegen.funcs[c.current_func]

\* the variable a name resolves to in the current state
Resolved(name) == c.codegen.vars[find_var(c.codegen, name)]

\* C21: while a function body is compiled each parameter name resolves to
\* the parameter's frame slot, also when a global has that name, and only
\* globals lie below the body's own entries; compile_function_body returns
\* with var_count, stack_size, in_function and the source position as they
\* were at its call, so outside a body only globals are visible.
C21_Scoping ==
  /\ [](inp.kind = "scope" =>
         /\ phase = "body" =>
              /\ \A i \in 1..CurrentFn.param_count :
                   /\ Resolved(CurrentFn.params[i]).is_param
                   /\ ~Resolved(CurrentFn.params[i]).is_global
                   /\ Resolved(CurrentFn.params[i]).stack_offset
                        = 16 + (CurrentFn.param_count - i) * 8
              /\ \A k \in 1..c.saved_var_count : c.codegen.vars[k].is_global
         /\ phase \in {"pass2", "pass3", "compiled"} =>
              /\ \A k \in 1..c.codegen.var_count : c.codegen.vars[k].is_global
              /\ c.codegen.stack_size = 0 /\ ~c.codegen.in_function)
  /\ [][/\ (phase = "pass3" /\ phase' = "body") =>
             /\ c'.saved_var_count = c.codegen.var_count
             /\ c'.saved_stack_size = c.codegen.stack_size
             /\ c'.saved_in_function = c.codegen.in_function
             /\ c'.saved_pos = c.pos
        /\ (phase = "body" /\ phase' = "body") =>
             /\ c'.saved_var_count = c.saved_var_count
             /\ c'.saved_stack_size = c.saved_stack_size
             /\ c'.saved_in_function = c.saved_in_function
             /\ c'.saved_pos = c.saved_pos
        /\ (phase = "body" /\ phase' = "pass3") =>
             /\ c'.codegen.var_count = c.saved_var_count
             /\ c'.codegen.stack_size = c.saved_stack_size
             /\ c'.codegen.in_function = c.saved_in_function
             /\ c'.pos = c.saved_pos]_vars

\* the body of f is being compiled, its parameter a shadowing the global a
\* and its local r created
C21_Witness ==
  /\ inp.kind = "scope" /\ inp.frags = <<1, 2, 3>> /\ phase = "body"
  /\ c.current_func = 1
  /\ find_var_from(c.codegen, <<97>>, c.saved_var_count) # 0
  /\ Resolved(<<97>>).is_param
  /\ find_var(c.codegen, <<114>>) > c.saved_var_count

(***************************************************************************)
(* SpecHalt: compile() run to its return.  A loop of the compiler whose    *)
(* iteration leaves the source position where it was repeats that          *)
(* iteration for ever: the compiler then takes no further step.            *)
(***************************************************************************)
\* bound: number of fragments in a source text
MaxHaltFrags == 2

HaltFragment(k) ==
  CASE k = 1 -> <<102, 110, 32, 102, 40, 97, 41, 32, 123, 10>> (* "fn f(a) {\n" *)
    [] k = 2 -> <<102, 40, 64, 41, 10>> (* "f(@)\n" *)
    [] k = 3 -> <<117, 110, 105, 102, 105, 101, 100, 32, 123, 32, 64, 32, 125, 10>> (* "unified { @ }\n" *)
    [] k = 4 -> <<120, 32, 61, 32, 49, 10>> (* "x = 1\n" *)
    [] k = 5 -> <<102, 110, 32, 103, 32, 97, 32, 123, 32, 45, 62, 32, 97, 32, 125, 10>> (* "fn g a { -> a }\n" *)
    [] k = 6 -> <<103, 40, 49, 44, 32, 50, 41, 10>> (* "g(1, 2)\n" *)

HaltFragmentIds == 1..6

RECURSIVE HaltConcat(_)
HaltConcat(ks) == IF ks = <<>> THEN <<>> ELSE HaltFragment(Head(ks)) \o HaltConcat(Tail(ks))

InitHalt ==
  /\ \E ks \in UNION { [1..n -> HaltFragmentIds] : n \in 0..MaxHaltFrags } :
       /\ inp = [kind |-> "halt", frags |-> ks]
       /\ c = compiler_init(HaltConcat(ks))
  /\ phase = "init"
  /\ elf = NoElf
  /\ m = NoMachine
  /\ proc = NoProc
  /\ ref = NoRef

NextHalt ==
  \/ CompileBegin
  \/ Pass1Step
  \/ Pass1End
  \/ Pass2Step
  \/ Pass2End
  \/ FunctionBegin
  \/ BodyStep
  \/ FunctionEnd
  \/ Pass3End

\* compile() is one sequential call: it goes on while it has a step to take
SpecHalt == InitHalt /\ [][NextHalt]_vars /\ WF_vars(NextHalt)

\* C22: compile() terminates on every source text: no iteration of its loops
\* leaves the source position unchanged, and compile() reaches its return.
C22_Terminates == [](~c.hang) /\ <>(phase = "compiled")

\* C23: for every recorded fixup, fixup offset + 4 <= code_pos <= code_cap,
\* so resolve_fixups only overwrites bytes that were emitted, also for a
\* fixup recorded with the buffer full or with fewer than 4 bytes left.
C23_FixupsWithinCode ==
  inp.kind = "cap" =>
    \A i \in 1..c.codegen.fixup_count :
      /\ c.codegen.fixups[i].pos + 4 <= c.codegen.code_pos
      /\ c.codegen.code_pos <= c.codegen.code_cap

\* C24: in every state 0 <= var_count <= MAX_VARS: neither add_var nor the
\* parameter binding of compile_function_body writes a variable entry at an
\* index >= MAX_VARS, also when the table is full of globals.
C24_VarCountBounded ==
  inp.kind = "cap" =>
    /\ 0 <= c.codegen.var_count /\ c.codegen.var_count <= MAX_VARS
    /\ Len(c.codegen.vars) <= MAX_VARS

(***************************************************************************)
(* SpecImage: the second pass near the end of a long main program of keep  *)
(* statements, whose code fills the addresses below the globals; then the  *)
(* passes to the end of compile() and the output written.                  *)
(***************************************************************************)
\* bound: number of keep statements still to be compiled
MaxImageKeeps == 9
\* bound: number of those statements whose code still fits below the globals
ImageSlack == 2

\* the code of one keep statement
KeepCode == gen_event_loop(codegen_init).code

\* the number of keep statements whose code, with the main prologue, the
\* exit(0) and the 120 header bytes, ends exactly at the globals' base
KeepsBelowGlobals ==
  (GLOBAL_BASE - ELF_BASE - 120 - Len(MainPrologue) - Len(ExitZero)) \div Len(KeepCode)

\* the code buffer after the main prologue and n keep statements
keeps_code(n) ==
  [i \in 1..(Len(MainPrologue) + n * Len(KeepCode)) |->
     IF i <= Len(MainPrologue) THEN MainPrologue[i]
     ELSE KeepCode[((i - Len(MainPrologue) - 1) % Len(KeepCode)) + 1]]

\* "keep\n" k times
KeepSource(k) == Repeat(<<107, 101, 101, 112, 10>>, k)

\* the second pass has compiled all but the last k keep statements of the
\* source; the text before the cursor is left out and offsets count from it
InitImage ==
  /\ \E k \in 0..MaxImageKeeps :
       /\ inp = [kind |-> "image", keeps |-> k]
       /\ c = [pass1_end(pass1_all(compile_begin(compiler_init(KeepSource(k))))) EXCEPT
                 !.codegen.code = keeps_code(KeepsBelowGlobals - ImageSlack),
                 !.codegen.code_pos = Len(keeps_code(KeepsBelowGlobals - ImageSlack))]
  /\ phase = "pass2"
  /\ elf = NoElf
  /\ m = NoMachine
  /\ proc = NoProc
  /\ ref = NoRef

NextImage ==
  \/ Pass2Step
  \/ Pass2End
  \/ Pass3End
  \/ WriteElf
  \/ WriteRaw

SpecImage == InitImage /\ [][NextImage]_vars

\* C25: the loaded image never overlaps the globals: in every final state
\* 0x400000 + 120 + code_pos + data_pos <= 0x600000, for code_pos up to the
\* capacity of the code buffer.
C25_ImageBelowGlobals ==
  (inp.kind = "image" /\ Compiled) =>
    /\ c.codegen.code_pos <= c.codegen.code_cap
    /\ ELF_BASE + 120 + c.codegen.code_pos + c.codegen.data_pos <= GLOBAL_BASE

(***************************************************************************)
(* SpecFrame: one function whose body assigns a number of distinct locals. *)
(***************************************************************************)
\* bound: number of distinct locals assigned in the body
MaxLocals == 34

\* the bytes the function prologue of the third pass reserves below rbp
FrameBytes == 256

\* the i-th local's name: a .. z, a1 .. z1, ...
LocalName(i) ==
  <<97 + ((i - 1) % 26)>> \o (IF i > 26 THEN <<48 + ((i - 1) \div 26)>> ELSE <<>>)

RECURSIVE LocalAssigns(_, _)
\* "<name>=1\n" for the locals i .. n
LocalAssigns(i, n) ==
  IF i > n THEN <<>>
  ELSE IF i = n THEN LocalName(i) \o <<61, 49, 10>>
  ELSE LocalAssigns(i, (i + n) \div 2) \o LocalAssigns(((i + n) \div 2) + 1, n)

\* "fn f {\n" <assignments> "}\n"
FrameSource(n) ==
  <<102, 110, 32, 102, 32, 123, 10>> \o LocalAssigns(1, n) \o <<125, 10>>

InitFrame ==
  /\ \E n \in 0..MaxLocals :
       /\ inp = [kind |-> "frame", locals |-> n]
       /\ c = compiler_init(FrameSource(n))
  /\ phase = "init"
  /\ elf = NoElf
  /\ m = NoMachine
  /\ proc = NoProc
  /\ ref = NoRef

NextFrame ==
  \/ CompileBegin
  \/ Pass1Step
  \/ Pass1End
  \/ Pass2Step
  \/ Pass2End
  \/ FunctionBegin
  \/ BodyStep
  \/ FunctionEnd
  \/ Pass3End

SpecFrame == InitFrame /\ [][NextFrame]_vars

\* the locals of the body being compiled
FrameLocals ==
  { k \in (c.saved_var_count + 1)..c.codegen.var_count :
      ~c.codegen.vars[k].is_global /\ ~c.codegen.vars[k].is_param }

\* C26: every local of a function lies inside the 256 bytes its prologue
\* reserves: each local's frame offset is >= -256, for any number of
\* distinct locals assigned in one body.
C26_LocalsInFrame ==
  (inp.kind = "frame" /\ phase = "body") =>
    \A k \in FrameLocals : c.codegen.vars[k].stack_offset >= -FrameBytes

(***************************************************************************)
(* SpecResolve: function declarations with and without statements in the   *)
(* body, and calls to them, in every order.                                *)
(***************************************************************************)
\* bound: number of fragments in a source text of declarations and calls
MaxResolveFrags == 3

ResolveFragment(k) ==
  CASE k = 1 -> <<102, 110, 32, 101, 32, 123, 125, 10>> (* "fn e {}\n" *)
    [] k = 2 -> <<101, 40, 41, 10>> (* "e()\n" *)
    [] k = 3 -> <<102, 110, 32, 103, 32, 123, 32, 45, 62, 32, 49, 32, 125, 10>> (* "fn g { -> 1 }\n" *)
    [] k = 4 -> <<103, 40, 41, 10>> (* "g()\n" *)

ResolveFragmentIds == 1..4

RECURSIVE ResolveConcat(_)
ResolveConcat(ks) ==
  IF ks = <<>> THEN <<>> ELSE ResolveFragment(Head(ks)) \o ResolveConcat(Tail(ks))

InitResolve ==
  /\ \E ks \in UNION { [1..n -> ResolveFragmentIds] : n \in 0..MaxResolveFrags } :
       /\ inp = [kind |-> "resolve", frags |-> ks]
       /\ c = compiler_init(ResolveConcat(ks))
  /\ phase = "init"
  /\ elf = NoElf
  /\ m = NoMachine
  /\ proc = NoProc
  /\ ref = NoRef

NextResolve ==
  \/ CompileBegin
  \/ Pass1Step
  \/ Pass1End
  \/ Pass2Step
  \/ Pass2End
  \/ FunctionSkip
  \/ FunctionBegin
  \/ BodyStep
  \/ FunctionEnd
  \/ Pass3End

SpecResolve == InitResolve /\ [][NextResolve]_vars

\* the names declared with fn in the source of this run
DeclaredNames ==
  { <<101>> : i \in { i \in 1..Len(inp.frags) : inp.frags[i] = 1 } }
    \cup { <<103>> : i \in { i \in 1..Len(inp.frags) : inp.frags[i] = 3 } }

\* index of the first function of the table with the name
FirstFunction(cg, name) ==
  SetMin({ i \in 1..cg.func_count : cg.funcs[i].name = name })

\* the bytes of a function's prologue with its sub rsp
FnPrologue == gen_sub_rsp(gen_prologue(codegen_init), 256).code

\* the fixup's four bytes hold the displacement to the prologue of the first
\* function declared with the fixup's name
CallResolved(cg, f) ==
  /\ LabelsNamed(cg, f.label) # {}
  /\ LET target == cg.labels[SetMin(LabelsNamed(cg, f.label))].pos IN
       /\ rd_s32(CodeAt4(cg, f.pos)) = target - (f.pos + 4)
       /\ target = cg.funcs[FirstFunction(cg, f.label)].code_offset
       /\ target + Len(FnPrologue) <= cg.code_pos
       /\ SubSeq(cg.code, target + 1, target + Len(FnPrologue)) = FnPrologue

\* C27: every call to a function declared with fn somewhere in the source
\* resolves: after resolve_fixups the call's displacement targets the
\* prologue of the first function declared with that name, also when the
\* function's body is empty.
C27_CallsResolve ==
  (inp.kind = "resolve" /\ phase = "compiled") =>
    \A i \in 1..c.codegen.fixup_count :
      c.codegen.fixups[i].label \in DeclaredNames =>
        CallResolved(c.codegen, c.codegen.fixups[i])

(***************************************************************************)
(* SpecBoundary: main programs of one-line statements, assignments         *)
(* followed by returns among them.                                         *)
(***************************************************************************)
\* bound: number of one-line statements in a source text
MaxBoundaryFrags == 3

BoundaryFragment(k) ==
  CASE k = 1 -> <<120, 32, 61, 32, 49, 10>> (* "x = 1\n" *)
    [] k = 2 -> <<45, 62, 32, 50, 10>> (* "-> 2\n" *)
    [] k = 3 -> <<121, 32, 61, 32, 120, 10>> (* "y = x\n" *)
    [] k = 4 -> <<114, 101, 116, 117, 114, 110, 32, 51, 10>> (* "return 3\n" *)

BoundaryFragmentIds == 1..4

RECURSIVE BoundaryConcat(_)
BoundaryConcat(ks) ==
  IF ks = <<>> THEN <<>> ELSE BoundaryFragment(Head(ks)) \o BoundaryConcat(Tail(ks))

InitBoundary ==
  /\ \E ks \in UNION { [1..n -> BoundaryFragmentIds] : n \in 0..MaxBoundaryFrags } :
       /\ inp = [kind |-> "boundary", frags |-> ks]
       /\ c = compiler_init(BoundaryConcat(ks))
  /\ phase = "init"
  /\ elf = NoElf
  /\ m = NoMachine
  /\ proc = NoProc
  /\ ref = NoRef

NextBoundary ==
  \/ CompileBegin
  \/ Pass1Step
  \/ Pass1End
  \/ Pass2Step
  \/ Pass2End
  \/ Pass3End

SpecBoundary == InitBoundary /\ [][NextBoundary]_vars

\* the compiler with the source cut after the line the cursor is in
line_only(cc) ==
  [cc EXCEPT !.source = Take(cc.source, skip_line(cc).pos), !.len = skip_line(cc).pos]

\* C28: statement boundaries are respected by the expression compiler: a
\* statement followed on the next line by -> e or return e is compiled up to
\* the end of its own line, to the code it has without the lines after it,
\* and the next line is compiled as a statement of its own.
C28_StatementBoundary ==
  [][(inp.kind = "boundary" /\ phase = "pass2" /\ phase' = "pass2") =>
       /\ c'.pos = skip_line(c).pos
       /\ c'.codegen.code = compile_statement(line_only(c)).codegen.code]_vars

(***************************************************************************)
(* SpecKeyword: main programs of assignments to variables whose names      *)
(* begin with a keyword.                                                   *)
(***************************************************************************)
\* bound: number of assignments in a source text
MaxKeywordFrags == 3

KeywordFragment(k) ==
  CASE k = 1 -> <<108, 111, 111, 112, 95, 99, 111, 117, 110, 116, 32, 61, 32, 48, 10>> (* "loop_count = 0\n" *)
    [] k = 2 -> <<107, 101, 101, 112, 101, 114, 32, 61, 32, 49, 10>> (* "keeper = 1\n" *)
    [] k = 3 -> <<98, 114, 101, 97, 107, 101, 114, 32, 61, 32, 50, 10>> (* "breaker = 2\n" *)
    [] k = 4 -> <<114, 101, 116, 117, 114, 110, 101, 100, 32, 61, 32, 51, 10>> (* "returned = 3\n" *)
    [] k = 5 -> <<120, 32, 61, 32, 52, 10>> (* "x = 4\n" *)

KeywordFragmentIds == 1..5

RECURSIVE KeywordConcat(_)
KeywordConcat(ks) ==
  IF ks = <<>> THEN <<>> ELSE KeywordFragment(Head(ks)) \o KeywordConcat(Tail(ks))

InitKeyword ==
  /\ \E ks \in UNION { [1..n -> KeywordFragmentIds] : n \in 0..MaxKeywordFrags } :
       /\ inp = [kind |-> "keyword", frags |-> ks]
       /\ c = compiler_init(KeywordConcat(ks))
  /\ phase = "init"
  /\ elf = NoElf
  /\ m = NoMachine
  /\ proc = NoProc
  /\ ref = NoRef

NextKeyword ==
  \/ CompileBegin
  \/ Pass1Step
  \/ Pass1End
  \/ Pass2Step
  \/ Pass2End
  \/ Pass3End

SpecKeyword == InitKeyword /\ [][NextKeyword]_vars

\* the statement at the cursor compiled as a statement that begins with an
\* identifier: the assignment branch of compile_statement
as_assignment(cc) == ident_statement(parse_ident(skip_whitespace(cc)))

\* C29: keyword dispatch respects identifier boundaries: a statement
\* name = expr whose identifier begins with a keyword is compiled as an
\* assignment to the variable of that full name, and emits no loop labels,
\* back-jump, event loop, break jump or epilogue.
C29_KeywordBoundary ==
  [][(inp.kind = "keyword" /\ phase = "pass2" /\ phase' = "pass2") =>
       /\ find_var(c'.codegen, parse_ident(skip_whitespace(c)).buf) # 0
       /\ c'.codegen = as_assignment(c).codegen
       /\ c'.pos = as_assignment(c).pos
       /\ c'.loop_depth = c.loop_depth
       /\ c'.codegen.label_count = c.codegen.label_count
       /\ c'.codegen.fixup_count = c.codegen.fixup_count]_vars

(***************************************************************************)
(* SpecNeutral: expressions and non-returning statements with pushes and   *)
(* frame adjustments, in the main program and in a function body; the      *)
(* stack effect of the code each statement emits is read off its bytes.    *)
(***************************************************************************)
\* bound: number of fragments in a source text of such statements
MaxNeutralFrags == 2

NeutralFragment(k) ==
  CASE k = 1 -> <<120, 32, 61, 32, 49, 32, 43, 32, 50, 32, 47, 32, 51, 32, 60, 32, 52, 10>> (* "x = 1 + 2 / 3 < 4\n" *)
    [] k = 2 -> <<112, 111, 107, 101, 40, 120, 44, 32, 54, 53, 41, 10>> (* "poke(x, 65)\n" *)
    [] k = 3 -> <<120, 32, 61, 32, 103, 101, 116, 99, 104, 97, 114, 40, 41, 32, 43, 32, 112, 101, 101, 107, 40, 120, 41, 10>> (* "x = getchar() + peek(x)\n" *)
    [] k = 4 -> <<112, 117, 116, 99, 104, 97, 114, 40, 120, 41, 10>> (* "putchar(x)\n" *)
    [] k = 5 -> <<98, 121, 116, 101, 40, 54, 54, 41, 10>> (* "byte(66)\n" *)
    [] k = 6 -> <<115, 121, 115, 99, 97, 108, 108, 46, 119, 114, 105, 116, 101, 40, 49, 44, 32, 34, 97, 34, 44, 32, 49, 41, 10>> (* "syscall.write(1, \"a\", 1)\n" *)
    [] k = 7 -> <<115, 121, 115, 99, 97, 108, 108, 46, 109, 109, 97, 112, 40, 48, 44, 32, 49, 44, 32, 51, 44, 32, 51, 52, 44, 32, 48, 44, 32, 48, 41, 10>> (* "syscall.mmap(0, 1, 3, 34, 0, 0)\n" *)
    [] k = 8 -> <<102, 40, 49, 44, 32, 120, 41, 10>> (* "f(1, x)\n" *)
    [] k = 9 -> <<120, 32, 61, 32, 102, 40, 49, 44, 32, 50, 41, 32, 43, 32, 102, 40, 41, 10>> (* "x = f(1, 2) + f()\n" *)
    [] k = 10 -> <<102, 110, 32, 102, 32, 97, 32, 98, 32, 123, 32, 121, 32, 61, 32, 97, 32, 45, 32, 98, 10, 32, 102, 40, 121, 41, 10, 32, 125, 10>> (* "fn f a b { y = a - b\n f(y)\n }\n" *)

NeutralFragmentIds == 1..10

RECURSIVE NeutralConcat(_)
NeutralConcat(ks) ==
  IF ks = <<>> THEN <<>> ELSE NeutralFragment(Head(ks)) \o NeutralConcat(Tail(ks))

InitNeutral ==
  /\ \E ks \in UNION { [1..n -> NeutralFragmentIds] : n \in 0..MaxNeutralFrags } :
       /\ inp = [kind |-> "neutral", frags |-> ks]
       /\ c = compiler_init(NeutralConcat(ks))
  /\ phase = "init"
  /\ elf = NoElf
  /\ m = NoMachine
  /\ proc = NoProc
  /\ ref = NoRef

NextNeutral ==
  \/ CompileBegin
  \/ Pass1Step
  \/ Pass1End
  \/ Pass2Step
  \/ Pass2End
  \/ FunctionBegin
  \/ BodyStep
  \/ FunctionEnd
  \/ Pass3End

SpecNeutral == InitNeutral /\ [][NextNeutral]_vars

\* an instruction of len bytes that lowers rsp by push bytes
Insn(len, push) == [len |-> len, push |-> push]

\* the instructions that begin with the REX.W prefix 48, b1 b2 b3 being the
\* bytes after it and p the offset of the prefix
insn_rex(code, p, b1, b2, b3) ==
  IF b1 = 129 /\ b2 = 236 THEN Insn(7, imm32_at(code, p + 3))         \* sub rsp, imm32
  ELSE IF b1 = 129 /\ b2 = 196 THEN Insn(7, 0 - imm32_at(code, p + 3)) \* add rsp, imm32
  ELSE IF b1 \in {184, 186, 187, 190, 191} THEN Insn(10, 0)            \* mov r, imm64
  ELSE IF b1 = 137 /\ b2 = 236 THEN Insn(0, 0)                         \* mov rsp, rbp
  ELSE IF b1 \in {137, 139} /\ b2 = 133 THEN Insn(7, 0)                \* mov [rbp + disp32]
  ELSE IF b1 \in {1, 41, 57, 133, 137, 139, 247} THEN Insn(3, 0)       \* register forms
  ELSE IF b1 = 15 /\ b2 = 175 THEN Insn(4, 0)                          \* imul rax, rbx
  ELSE IF b1 = 15 /\ b2 = 182 THEN Insn(IF b3 = 4 THEN 5 ELSE 4, 0)    \* movzx
  ELSE IF b1 = 141 /\ b2 \in {5, 53} THEN Insn(7, 0)                   \* lea r, [rip + disp32]
  ELSE IF b1 = 141 /\ b2 = 52 THEN Insn(4, 0)                          \* lea rsi, [rsp]
  ELSE IF b1 = 153 THEN Insn(2, 0)                                     \* cqo
  ELSE Insn(0, 0)

\* the instruction at offset p, b0 b1 being its first bytes: its length (with
\* the data a forward jump passes over) and the bytes it takes from the
\* stack; a call is taken with its callee's ret; length 0 for any other byte
insn_at(code, p, b0, b1) ==
  IF b0 \in {80, 83, 85} THEN Insn(1, 8)                               \* push
  ELSE IF b0 \in {88, 91, 93} THEN Insn(1, -8)                         \* pop
  ELSE IF b0 = 65 /\ b1 \in {88, 90} THEN Insn(2, -8)                  \* pop r8, pop r10
  ELSE IF b0 = 72 THEN insn_rex(code, p, b1, byte_at(code, p + 2), byte_at(code, p + 3))
  ELSE IF b0 = 73 /\ b1 = 137 THEN Insn(3, 0)                          \* mov r9, rax
  ELSE IF b0 = 15 /\ b1 = 5 THEN Insn(2, 0)                            \* syscall
  ELSE IF b0 = 15 /\ b1 \in 144..159 THEN Insn(3, 0)                   \* setcc al
  ELSE IF b0 = 136 THEN Insn(IF b1 = 4 THEN 3 ELSE 2, 0)               \* mov [r], al
  ELSE IF b0 = 235 /\ b1 < 128 THEN Insn(2 + b1, 0)                    \* jmp short, forward
  ELSE IF b0 = 233 /\ byte_at(code, p + 4) < 128 THEN Insn(5 + imm32_at(code, p + 1), 0)
  ELSE IF b0 = 232 THEN Insn(5, 0)                                     \* call
  ELSE Insn(0, 0)

insn(code, p) == insn_at(code, p, byte_at(code, p), byte_at(code, p + 1))

\* one instruction of a walk along the code up to offset end: s.p is the
\* offset reached, s.depth the number of bytes on the stack above its level at
\* the start, s.low the least depth on the way; the walk stays where it is at
\* end, and fails at a byte that begins no instruction or beyond end
walk_insn(code, end, s, i) ==
  IF s.p = end \/ ~s.ok THEN s
  ELSE IF i.len = 0 \/ s.p + i.len > end THEN [s EXCEPT !.ok = FALSE]
  ELSE [p |-> s.p + i.len, depth |-> s.depth + i.push,
        low |-> Min(s.low, s.depth + i.push), ok |-> TRUE]

walk_step(code, end, s) == walk_insn(code, end, s, insn(code, s.p))

RECURSIVE walk_steps(_, _, _, _)
\* n steps of the walk, as two halves: s1 is the walk after the first
walk_steps(code, end, s, n) ==
  IF n <= 1 THEN walk_step(code, end, s)
  ELSE CHOOSE r \in { walk_steps(code, end, s1, n - (n \div 2)) :
                        s1 \in { walk_steps(code, end, s, n \div 2) } } : TRUE

\* the walk from offset from to offset to; every instruction has a byte at
\* least, so to - from steps reach its end
stack_walk(code, from, to) ==
  walk_steps(code, to, [p |-> from, depth |-> 0, low |-> 0, ok |-> TRUE], Max(1, to - from))

\* the code from offset from to offset to is a sequence of whole instructions
\* that leaves the stack pointer where it was and never raises it above
\* where it was
Neutral(code, from, to) ==
  stack_walk(code, from, to) = [p |-> to, depth |-> 0, low |-> 0, ok |-> TRUE]

\* C30: the instruction sequence emitted for a single expression or
\* non-returning statement is stack-neutral: every push is matched by a pop
\* or by the caller's add rsp, 8 x argc, and every sub rsp,N by an
\* add rsp,N, so the stack pointer after the construct is the one before it.
C30_StackNeutral ==
  [][(inp.kind = "neutral" /\ phase \in {"pass2", "body"} /\ phase' = phase) =>
       Neutral(c'.codegen.code, c.codegen.code_pos, c'.codegen.code_pos)]_vars

\* x = f(1, 2) + f() has been compiled: two arguments pushed, the call and
\* its add rsp, 16, the push of the sum's left operand, the second call
\* without arguments, and the pop
C30_Witness ==
  /\ inp.kind = "neutral" /\ inp.frags = <<9>>
  /\ phase = "pass2" /\ c.pos >= c.len
  /\ c.codegen.fixup_count = 2
  /\ Neutral(c.codegen.code, Len(MainPrologue), c.codegen.code_pos)
  /\ Cardinality({ p \in Len(MainPrologue)..(c.codegen.code_pos - 7) :
                     SubSeq(c.codegen.code, p + 1, p + 7) = <<72, 129, 196>> \o le32(16) }) = 1

====
